---- MODULE Spec2Model ----
(***************************************************************************)
(* A model of fs-tree-diff's tree layer: ManualTree patches, WritableTree  *)
(* writes with real-time change tracking, Projections and Delegators.      *)
(*                                                                         *)
(* Paths are sequences of one-character strings, ordered as JavaScript     *)
(* orders strings (by code unit), so that "a" < "a.b" < "a/b".             *)
(***************************************************************************)
EXTENDS Integers, Sequences, FiniteSets, TLC

VARIABLES
  entries,       \* [tree -> the tree's _entries array]
  state,         \* [tree -> "started" | "stopped"]
  tracker,       \* [tree -> _firstChange, _lastChange, _changeHash and the change nodes]
  now,           \* the value Date.now() returns
  lastCall,      \* the last public call made and how it ended
  startEntries,  \* [tree -> the entries the tree exposed when start() was last called]
  proj,          \* the Projection objects created so far
  delegate,      \* [tree -> the Projection a Delegator delegates to, or 0]
  rootOnDisk,    \* [tree -> what is at the tree's root on disk]
  oursTree,      \* the entries of the ManualTree calculatePatch is called on
  theirsTree,    \* the entries of the ManualTree it is passed
  patch,         \* the patch calculatePatch returned
  applied,       \* i of applyPatch: the operations applied so far (-1: no patch yet)
  failure,       \* the error an operation of the patch threw, or "none"
  disk,          \* the output directory applyPatch works on
  canSymlink,    \* symlinkOrCopy.canSymlink of the platform
  sourceDisk,    \* what the root directory of the SourceTree holds on disk
  sourceEntries, \* the SourceTree's _entries
  scannedDirectories,  \* the SourceTree's _scannedDirectories
  sourcePrevious,      \* the SourceTree's _previousEntries
  scans,         \* [directory -> the times the SourceTree read it since the last reread]
  parentTree,    \* the _entries of the tree a filtered Projection is made of
  filters,       \* the cwd, include and exclude of that Projection
  inputTrees,    \* the entries of the input trees of the FSMergeTree
  overwrite,     \* the overwrite option of the merge
  currentTree,   \* the entries of the FSMergeTree's _currentTree
  mergeResult,   \* what the last call of the FSMergeTree returned or threw
  childPrevious, \* the _previousEntries of each Projection made of the SourceTree
  quietRereads,  \* the rereads since the directory last changed on disk, up to two
  normalizedPaths,     \* the memo of shared.normalizeRelativePath: its own properties
  normalized     \* the last call of normalizeRelativePath and how it ended

\* The WritableTrees, their Projections and their clients.
treeVars == <<entries, state, tracker, now, lastCall, startEntries, proj, delegate, rootOnDisk>>

\* A ManualTree pair, its patch and the directory the patch is applied to.
patchVars == <<oursTree, theirsTree, patch, applied, failure, disk, canSymlink>>

\* A SourceTree and the directory it scans.
sourceVars ==
  <<sourceDisk, sourceEntries, scannedDirectories, sourcePrevious, scans, childPrevious,
    quietRereads>>
filterVars == <<parentTree, filters>>
mergeVars == <<inputTrees, overwrite, currentTree, mergeResult>>
normalizeVars == <<normalizedPaths, normalized>>

vars == <<entries, state, tracker, now, lastCall, startEntries, proj, delegate, rootOnDisk, patchVars,
          sourceVars, filterVars, mergeVars, normalizeVars>>

(***************************************************************************)
(* Bounds of the model.                                                    *)
(***************************************************************************)
MaxClock == 2

(***************************************************************************)
(* F(v), with v evaluated once however often F uses it: what a JavaScript  *)
(* local holding v is.                                                     *)
(***************************************************************************)
With(v, F(_)) == CHOOSE y \in {F(x) : x \in {v}} : TRUE

(***************************************************************************)
(* Strings.                                                                *)
(***************************************************************************)
\* The code unit of a character, for the characters paths are made of.
CharCode(c) ==
  CASE c = "." -> 46
    [] c = "/" -> 47
    [] c = "a" -> 97
    [] c = "b" -> 98
    [] c = "c" -> 99
    [] c = "d" -> 100
    [] c = "l" -> 108

sep == "/"

RECURSIVE StringLess(_, _)
\* JavaScript's a < b on strings.
StringLess(a, b) ==
  IF b = <<>> THEN FALSE
  ELSE IF a = <<>> THEN TRUE
  ELSE IF Head(a) = Head(b) THEN StringLess(Tail(a), Tail(b))
  ELSE CharCode(Head(a)) < CharCode(Head(b))

comparePaths(a, b) ==
  IF StringLess(b, a) THEN 1
  ELSE IF StringLess(a, b) THEN -1
  ELSE 0

\* String.prototype.startsWith, as shared.startsWith(string, prefix) uses it.
startsWith(string, prefix) ==
  /\ Len(prefix) <= Len(string)
  /\ SubSeq(string, 1, Len(prefix)) = prefix

\* string.substring(n)
substring(string, n) == SubSeq(string, n + 1, Len(string))

ensureSeparator(path) ==
  IF Len(path) = 0 \/ path[Len(path)] = sep THEN path ELSE path \o <<sep>>

\* path.join of two normalized relative paths, '' instead of '.'.
joinPaths(a, b) ==
  IF a = <<>> THEN b
  ELSE IF b = <<>> THEN a
  ELSE a \o <<sep>> \o b

RECURSIVE LastSepIndex(_, _)
\* The (1-based) position of the last separator at or before position i; 0 if none.
LastSepIndex(path, i) ==
  IF i = 0 THEN 0
  ELSE IF path[i] = sep THEN i
  ELSE LastSepIndex(path, i - 1)

\* shared.dirname: the parent directory's path, '' for a top-level path.
dirname(path) ==
  LET i == LastSepIndex(path, Len(path))
  IN IF i = 0 THEN <<>> ELSE SubSeq(path, 1, i - 1)

(***************************************************************************)
(* Entries.                                                                *)
(***************************************************************************)
DIRECTORY_MODE == 16877
FILE_MODE == 33188
S_IFMT == 61440
S_IFDIR == 16384

undefined == -1

\* entry._symlink: absent, { external }, { tree: a Projection, entry: ROOT } for
\* a linked directory, or the target's find result for a linked file.
NoLink == [kind |-> "none", proj |-> 0, tree |-> 0, target |-> <<>>]
ExternalLink == [kind |-> "external", proj |-> 0, tree |-> 0, target |-> <<>>]
DirectoryLink(projection) == [kind |-> "dir", proj |-> projection, tree |-> 0, target |-> <<>>]
FileLink(tree, entry) == [kind |-> "file", proj |-> 0, tree |-> tree, target |-> <<entry>>]

\* new Entry(relativePath, size, mtime, mode, checksum)
Entry(relativePath, size, mtime, mode, checksum) ==
  [relativePath |-> relativePath, size |-> size, mtime |-> mtime,
   mode |-> mode, checksum |-> checksum, symlink |-> NoLink]

\* Entry.ROOT: the sentinel for a tree's own root.
ROOT == Entry(<<>>, undefined, undefined, DIRECTORY_MODE, <<>>)

\* mode & S_IFMT, the type bits (S_IFMT is 15 * 4096).
TypeBits(mode) == (mode \div 4096) * 4096

isDirectory(entry) == TypeBits(entry.mode) = S_IFDIR
isFile(entry) == ~isDirectory(entry)
isSymbolicLink(entry) == entry.symlink.kind # "none"

\* Entry.clone(entry, relativePath): the link descriptor is kept.
clone(entry, relativePath) == [entry EXCEPT !.relativePath = relativePath]

\* md5hex('' + content): equal exactly for equal contents.
md5hex(content) == <<"md5">> \o content

(***************************************************************************)
(* Sorted entry arrays (0-based indices, as in the source).                *)
(***************************************************************************)
At(array, i) == array[i + 1]

RECURSIVE BinarySearch(_, _, _, _)
\* The while loop of searchByRelativePath: <<found index or -1, low, high>>.
BinarySearch(array, normalizedPath, low, high) ==
  IF low > high THEN <<-1, low, high>>
  ELSE LET middle == low + ((high - low) \div 2)
           middleRelativePath == At(array, middle).relativePath
       IN IF normalizedPath = middleRelativePath THEN <<middle, low, high>>
          ELSE IF StringLess(normalizedPath, middleRelativePath)
               THEN BinarySearch(array, normalizedPath, low, middle - 1)
               ELSE BinarySearch(array, normalizedPath, middle + 1, high)

searchByRelativePath(array, normalizedPath, closest) ==
  IF Len(array) = 0 THEN -1
  ELSE IF StringLess(normalizedPath, At(array, 0).relativePath) THEN -1
  ELSE IF StringLess(At(array, Len(array) - 1).relativePath, normalizedPath)
       THEN (IF closest THEN Len(array) - 1 ELSE -1)
  ELSE With(BinarySearch(array, normalizedPath, 0, Len(array) - 1), LAMBDA r :
         \* r is <<the index found or -1, low, high>>
         IF r[1] # -1 THEN r[1]
         ELSE IF closest
              THEN (IF r[2] >= Len(array) THEN r[3]
                    ELSE IF r[2] < 0 THEN -1
                    ELSE IF StringLess(At(array, r[2]).relativePath, normalizedPath)
                         THEN r[2] ELSE r[2] - 1)
              ELSE -1)

\* array.splice(index, 0, entry)
SpliceIn(array, index, entry) ==
  SubSeq(array, 1, index) \o <<entry>> \o SubSeq(array, index + 1, Len(array))

\* array.splice(index, 1)
SpliceOut(array, index) ==
  SubSeq(array, 1, index) \o SubSeq(array, index + 2, Len(array))

\* WritableTree.prototype._insertEntry, on the _entries array.
insertEntry(array, entry) ==
  With(searchByRelativePath(array, entry.relativePath, TRUE), LAMBDA index :
    IF index = -1 THEN <<entry>> \o array
    ELSE IF At(array, index).relativePath = entry.relativePath
         THEN [array EXCEPT ![index + 1] = entry]
         ELSE SpliceIn(array, index + 1, entry))

\* WritableTree.prototype._removeEntry, on the _entries array.
\* _removeEntry testing the index for truth: index 0 is then not removed.
removeEntryTruthyIndex(array, entry) ==
  With(searchByRelativePath(array, entry.relativePath, FALSE), LAMBDA index :
    IF index > 0 THEN SpliceOut(array, index) ELSE array)

removeEntry(array, entry) ==
  With(searchByRelativePath(array, entry.relativePath, FALSE), LAMBDA index :
    IF index # -1 THEN SpliceOut(array, index) ELSE array)

(***************************************************************************)
(* Change tracking.  The doubly-linked list from _firstChange to           *)
(* _lastChange is the sequence `list`; a change node is identified by its  *)
(* position in the list, and _changeHash maps <<operation, path>> to the   *)
(* node it references.                                                     *)
(***************************************************************************)
Operations == {"change", "create", "mkdir", "rmdir", "unlink"}

\* The tracker start() leaves behind.
EmptyTracker == [list |-> <<>>, hash |-> [k \in {} |-> 0]]

\* this._changeHash[operation][normalizedPath]; 0 for undefined.
changeHashGet(K, operation, normalizedPath) ==
  IF <<operation, normalizedPath>> \in DOMAIN K.hash
  THEN K.hash[<<operation, normalizedPath>>]
  ELSE 0

\* Whether _untrack(operation, normalizedPath) returns true.
tracked(K, operation, normalizedPath) ==
  changeHashGet(K, operation, normalizedPath) # 0

\* WritableTree.prototype._untrack: the tracker it leaves behind.
untrack(K, operation, normalizedPath) ==
  LET change == changeHashGet(K, operation, normalizedPath)
      keys == DOMAIN K.hash \ {<<operation, normalizedPath>>}
  IN IF change = 0 THEN K
     ELSE [list |-> SpliceOut(K.list, change - 1),
           hash |-> [k \in keys |-> IF K.hash[k] > change THEN K.hash[k] - 1 ELSE K.hash[k]]]

\* The tail of _track: append the change and reference it from _changeHash.
appendChange(K, operation, entry) ==
  LET key == <<operation, entry.relativePath>>
      change == [op |-> operation, path |-> entry.relativePath, entry |-> entry]
  IN [list |-> Append(K.list, change),
      hash |-> [k \in DOMAIN K.hash \cup {key} |->
                  IF k = key THEN Len(K.list) + 1 ELSE K.hash[k]]]

\* A faulty case 'create': a previous unlink is not looked for.
trackCreateKeepingUnlink(K, entry) ==
  appendChange(K, "create", entry)

\* case 'create' of _track: a previous unlink becomes a change.
trackCreate(K, entry) ==
  IF tracked(K, "unlink", entry.relativePath)
  THEN With(untrack(K, "unlink", entry.relativePath), LAMBDA K1 :
         appendChange(K1, "change", entry))
  ELSE appendChange(K, "create", entry)

\* A faulty case 'change': a prior create is replaced by a change.
trackChangeOverCreate(K, entry) ==
  With(untrack(K, "change", entry.relativePath), LAMBDA K1 :
    With(untrack(K1, "create", entry.relativePath), LAMBDA K2 :
      appendChange(K2, "change", entry)))

\* A faulty case 'change': the prior create stays tracked beside the change.
trackChangeKeepingCreate(K, entry) ==
  With(untrack(K, "change", entry.relativePath), LAMBDA K1 :
    appendChange(K1, "change", entry))

\* case 'change' of _track: a prior change is wiped out, a prior create replaced.
trackChange(K, entry) ==
  With(untrack(K, "change", entry.relativePath), LAMBDA K1 :
    IF tracked(K1, "create", entry.relativePath)
    THEN With(untrack(K1, "create", entry.relativePath), LAMBDA K2 :
           appendChange(K2, "create", entry))
    ELSE appendChange(K1, "change", entry))

\* case 'mkdir' of _track: a prior rmdir is wiped out and the mkdir skipped.
trackMkdir(K, entry) ==
  IF tracked(K, "rmdir", entry.relativePath)
  THEN untrack(K, "rmdir", entry.relativePath)
  ELSE appendChange(K, "mkdir", entry)

\* A faulty case 'rmdir': the prior mkdir is wiped out and the rmdir tracked all the same.
trackRmdirAfterMkdir(K, entry) ==
  With(untrack(K, "mkdir", entry.relativePath), LAMBDA K1 :
    appendChange(K1, "rmdir", entry))

\* case 'rmdir' of _track: a prior mkdir is wiped out and the rmdir skipped.
trackRmdir(K, entry) ==
  IF tracked(K, "mkdir", entry.relativePath)
  THEN untrack(K, "mkdir", entry.relativePath)
  ELSE appendChange(K, "rmdir", entry)

\* A faulty case 'unlink': a prior change stays tracked beside the unlink.
trackUnlinkKeepingChange(K, entry) ==
  IF tracked(K, "create", entry.relativePath)
  THEN untrack(K, "create", entry.relativePath)
  ELSE appendChange(K, "unlink", entry)

\* case 'unlink' of _track: a prior change is wiped out; a prior create is
\* wiped out and the unlink skipped.
trackUnlink(K, entry) ==
  With(untrack(K, "change", entry.relativePath), LAMBDA K1 :
    IF tracked(K1, "create", entry.relativePath)
    THEN untrack(K1, "create", entry.relativePath)
    ELSE appendChange(K1, "unlink", entry))

\* WritableTree.prototype._track
track(K, operation_, entry) ==
  CASE operation_ = "create" -> trackCreate(K, entry)
    [] operation_ = "change" -> trackChange(K, entry)
    [] operation_ = "mkdir" -> trackMkdir(K, entry)
    [] operation_ = "rmdir" -> trackRmdir(K, entry)
    [] operation_ = "unlink" -> trackUnlink(K, entry)

(***************************************************************************)
(* Lookups.  X is the world an operation works on: the entries and the     *)
(* tracker of every tree, the projections and the delegates.               *)
(***************************************************************************)
World ==
  [entries |-> entries, tracker |-> tracker, proj |-> proj, delegate |-> delegate,
   root |-> rootOnDisk]

NotFound == [found |-> FALSE, entry |-> ROOT, tree |-> 0]
Found(entry, tree) == [found |-> TRUE, entry |-> entry, tree |-> tree]

RECURSIVE WalkBack(_, _, _)
\* while (index !== -1 && !startsWith(normalizedPath, entry.relativePath)) entry = array[--index]
WalkBack(array, normalizedPath, index) ==
  IF index = -1 THEN -1
  ELSE IF startsWith(normalizedPath, At(array, index).relativePath) THEN index
  ELSE WalkBack(array, normalizedPath, index - 1)

\* filterMatches for a projection without include or exclude matchers.
filterMatches(normalizedPath, cwd, hasFiles, files) ==
  IF ~startsWith(normalizedPath, ensureSeparator(cwd)) \/ cwd = normalizedPath THEN FALSE
  ELSE LET relative == IF cwd # <<>>
                       THEN substring(normalizedPath, Len(ensureSeparator(cwd)))
                       ELSE normalizedPath
       IN IF hasFiles THEN \E i \in 1..Len(files) : files[i] = relative ELSE TRUE

\* FacadeTree.prototype._findInArrayByRelativePath
findInArrayByRelativePath(array, normalizedPath, tree) ==
  With(searchByRelativePath(array, normalizedPath, FALSE), LAMBDA index :
    IF normalizedPath = <<>> THEN Found(ROOT, tree)
    ELSE IF index = -1 THEN NotFound
    ELSE Found(At(array, index), tree))

RECURSIVE findByRelativePath(_, _, _, _)
RECURSIVE projectionFindByRelativePath(_, _, _)
\* Projection.prototype._findByRelativePath, for a projection without include
\* or exclude matchers (mayContain then holds of every directory).
projectionFindByRelativePath(X, P, normalizedPath) ==
  IF P.hasFiles THEN findInArrayByRelativePath(P.entriesFromFiles, normalizedPath, 0)
  ELSE With(joinPaths(P.cwd, normalizedPath), LAMBDA fullNormalizedPath :
       With(findByRelativePath(X, P.parent, fullNormalizedPath, TRUE), LAMBDA parentResult :
         IF parentResult.found
            /\ (fullNormalizedPath = P.cwd
                \/ filterMatches(fullNormalizedPath, P.cwd, FALSE, <<>>)
                \/ isDirectory(parentResult.entry))
         THEN parentResult
         ELSE NotFound))

\* WritableTree.prototype._findByRelativePath; a path that crosses a linked
\* directory is handed to Projection.prototype._findByRelativePath (the
\* projection chdir made: a cwd and no other filter).
findByRelativePath(X, w, normalizedPath, resolveSymlinks) ==
  IF X.delegate[w] # 0
  THEN projectionFindByRelativePath(X, X.proj[X.delegate[w]], normalizedPath)
  ELSE
  With(searchByRelativePath(X.entries[w], normalizedPath, TRUE), LAMBDA index :
    IF normalizedPath = <<>> THEN Found(ROOT, w)
    ELSE IF index = -1 THEN NotFound
    ELSE IF At(X.entries[w], index).relativePath = normalizedPath
    THEN LET entry == At(X.entries[w], index)
         IN IF resolveSymlinks /\ entry.symlink.kind = "dir" THEN Found(ROOT, 0)
            ELSE IF resolveSymlinks /\ entry.symlink.kind = "file"
                 THEN Found(entry.symlink.target[1], entry.symlink.tree)
            ELSE Found(entry, w)
    ELSE With(WalkBack(X.entries[w], normalizedPath, index), LAMBDA back :
           IF back = -1 THEN NotFound
           ELSE LET entry == At(X.entries[w], back)
                    relativePathWithSeparator == ensureSeparator(entry.relativePath)
                IN IF isSymbolicLink(entry) /\ isDirectory(entry)
                      /\ startsWith(normalizedPath, relativePathWithSeparator)
                   THEN projectionFindByRelativePath(
                          X, X.proj[entry.symlink.proj],
                          substring(normalizedPath, Len(relativePathWithSeparator)))
                   ELSE NotFound))

(***************************************************************************)
(* Write operations.  Each takes the world X and returns how the call      *)
(* ended together with the world it leaves behind.  The directory on disk  *)
(* holds exactly what the tree's own entries describe.                     *)
(***************************************************************************)
Throw(error, X) == [result |-> error, world |-> X]
Return(X) == [result |-> "ok", world |-> X]
Noop(X) == [result |-> "noop", world |-> X]

\* WritableTree.prototype._throwOnCommonErrors: the error thrown, or "ok".
\* _throwOnCommonErrors looking at the path before it looks at the state.
throwOnCommonErrorsPathFirst(X, w, operation, normalizedPath, allowRoot, allowSymlinks) ==
  IF normalizedPath = <<>> /\ ~allowRoot THEN "root"
  ELSE IF state[w] = "stopped" THEN "stopped"
  ELSE IF X.entries[w] = <<>> /\ dirname(normalizedPath) # <<>> /\ operation # "mkdirp"
       THEN "ENOENT"
  ELSE "ok"

\* _throwOnCommonErrors that lets a link to a directory pass for the parent.
throwOnCommonErrorsAcrossLinks(X, w, operation, normalizedPath, allowRoot, allowSymlinks) ==
  With(searchByRelativePath(X.entries[w], dirname(normalizedPath), FALSE), LAMBDA parentIndex :
  With(searchByRelativePath(X.entries[w], normalizedPath, FALSE), LAMBDA targetIndex :
    LET checked == ~allowRoot \/ normalizedPath # <<>>
    IN IF state[w] = "stopped" THEN "stopped"
       ELSE IF checked /\ normalizedPath = <<>> THEN "root"
       ELSE IF checked /\ operation # "mkdirp" /\ dirname(normalizedPath) # <<>>
               /\ parentIndex = -1
            THEN "ENOENT"
       ELSE IF ~allowSymlinks /\ targetIndex # -1
               /\ isSymbolicLink(At(X.entries[w], targetIndex))
            THEN "symlink"
       ELSE "ok"))

throwOnCommonErrors(X, w, operation, normalizedPath, allowRoot, allowSymlinks) ==
  With(searchByRelativePath(X.entries[w], dirname(normalizedPath), FALSE), LAMBDA parentIndex :
  With(searchByRelativePath(X.entries[w], normalizedPath, FALSE), LAMBDA targetIndex :
    LET checked == ~allowRoot \/ normalizedPath # <<>>
    IN IF state[w] = "stopped" THEN "stopped"
       ELSE IF checked /\ normalizedPath = <<>> THEN "root"
       ELSE IF checked /\ operation # "mkdirp" /\ dirname(normalizedPath) # <<>>
               /\ (parentIndex = -1 \/ isSymbolicLink(At(X.entries[w], parentIndex)))
            THEN "ENOENT"
       ELSE IF ~allowSymlinks /\ targetIndex # -1
               /\ isSymbolicLink(At(X.entries[w], targetIndex))
            THEN "symlink"
       ELSE "ok"))

\* fs.mkdirSync, fs.writeFileSync and symlinkOrCopy.sync fail with ENOTDIR
\* when the parent of the path is a file.
fsParentIsDirectory(X, w, normalizedPath) ==
  With(searchByRelativePath(X.entries[w], dirname(normalizedPath), FALSE), LAMBDA parentIndex :
    \/ dirname(normalizedPath) = <<>>
    \/ (parentIndex # -1 /\ isDirectory(At(X.entries[w], parentIndex))))

\* What fs throws for a path in a root that is no directory any more: ENOENT
\* where nothing is left of it, ENOTDIR where it is a link to a file.  The
\* link a Delegator has for a root leads to a directory.
fsRootError(X, w) ==
  IF X.root[w] = "directory" \/ X.delegate[w] # 0 THEN "ok"
  ELSE IF X.root[w] = "missing" THEN "ENOENT"
  ELSE "ENOTDIR"

\* fs.rmdirSync fails with ENOTEMPTY when the directory has contents.
fsDirectoryIsEmpty(X, w, normalizedPath) ==
  \A i \in 1..Len(X.entries[w]) :
    ~startsWith(X.entries[w][i].relativePath, ensureSeparator(normalizedPath))

\* The tail shared by every successful write: _track, then _insertEntry.
trackAndInsert(X, w, operation, entry) ==
  [X EXCEPT !.tracker[w] = track(@, operation, entry),
            !.entries[w] = insertEntry(@, entry)]

\* The tail shared by every successful removal: _track, then _removeEntry.
trackAndRemove(X, w, operation, entry) ==
  [X EXCEPT !.tracker[w] = track(@, operation, entry),
            !.entries[w] = removeEntry(@, entry)]

mkdirSync(X, w, normalizedPath) ==
  With(throwOnCommonErrors(X, w, "mkdir", normalizedPath, FALSE, FALSE), LAMBDA error :
  With(findByRelativePath(X, w, normalizedPath, TRUE), LAMBDA result :
  With(Entry(normalizedPath, undefined, now, DIRECTORY_MODE, <<>>), LAMBDA entry :
    IF error # "ok" THEN Throw(error, X)
    ELSE IF result.found THEN Throw("EEXIST", X)
    ELSE IF fsRootError(X, w) # "ok" THEN Throw(fsRootError(X, w), X)
    ELSE IF ~fsParentIsDirectory(X, w, normalizedPath) THEN Throw("ENOTDIR", X)
    ELSE Return(trackAndInsert(X, w, "mkdir", entry)))))

RECURSIVE Subpaths(_, _)
\* The subpaths mkdirpSync walks: every prefix of the path that ends at a separator or at the end.
Subpaths(normalizedPath, i) ==
  IF i > Len(normalizedPath) THEN <<normalizedPath>>
  ELSE IF normalizedPath[i] = sep
       THEN <<SubSeq(normalizedPath, 1, i - 1)>> \o Subpaths(normalizedPath, i + 1)
       ELSE Subpaths(normalizedPath, i + 1)

RECURSIVE mkdirpLoop(_, _, _)
\* The for loop of mkdirpSync; an error of mkdirSync ends it.
mkdirpLoop(X, w, subpaths) ==
  IF subpaths = <<>> THEN Return(X)
  ELSE With(findByRelativePath(X, w, Head(subpaths), TRUE), LAMBDA found :
         IF ~found.found \/ isSymbolicLink(found.entry) \/ isFile(found.entry)
         THEN With(mkdirSync(X, w, Head(subpaths)), LAMBDA made :
                IF made.result # "ok" THEN made
                ELSE mkdirpLoop(made.world, w, Tail(subpaths)))
         ELSE mkdirpLoop(X, w, Tail(subpaths)))

mkdirpSync(X, w, normalizedPath) ==
  With(throwOnCommonErrors(X, w, "mkdirp", normalizedPath, FALSE, FALSE), LAMBDA error :
  With(findByRelativePath(X, w, normalizedPath, TRUE), LAMBDA result :
  With(Subpaths(normalizedPath, 1), LAMBDA subpaths :
    IF error # "ok" THEN Throw(error, X)
    ELSE IF result.found /\ isDirectory(result.entry) THEN Noop(X)
    ELSE IF result.found THEN Throw("EEXIST", X)
    ELSE mkdirpLoop(X, w, subpaths))))

rmdirSync(X, w, normalizedPath) ==
  With(throwOnCommonErrors(X, w, "rmdir", normalizedPath, FALSE, FALSE), LAMBDA error :
  With(findByRelativePath(X, w, normalizedPath, TRUE), LAMBDA result :
    IF error # "ok" THEN Throw(error, X)
    ELSE IF ~result.found THEN Throw("ENOENT", X)
    ELSE IF isSymbolicLink(result.entry) \/ ~isDirectory(result.entry) THEN Throw("ENOTDIR", X)
    ELSE IF ~fsDirectoryIsEmpty(X, w, result.entry.relativePath) THEN Throw("ENOTEMPTY", X)
    ELSE Return(trackAndRemove(X, w, "rmdir", result.entry))))

\* Projection.prototype._cleanup of the projection a linked directory holds.
cleanup(X, entry) ==
  IF isSymbolicLink(entry) /\ isDirectory(entry)
  THEN [X EXCEPT !.proj[entry.symlink.proj].attached = FALSE]
  ELSE X

unlinkSync(X, w, normalizedPath) ==
  With(throwOnCommonErrors(X, w, "unlink", normalizedPath, FALSE, TRUE), LAMBDA error :
  With(findByRelativePath(X, w, normalizedPath, FALSE), LAMBDA result :
  With(cleanup(X, result.entry), LAMBDA cleaned :
    IF error # "ok" THEN Throw(error, X)
    ELSE IF ~result.found THEN Throw("ENOENT", X)
    ELSE IF ~isSymbolicLink(result.entry) /\ isDirectory(result.entry) THEN Throw("EPERM", X)
    ELSE Return(trackAndRemove(cleaned, w,
                               IF isDirectory(result.entry) THEN "rmdir" ELSE "unlink",
                               result.entry)))))

removeSync(X, w, normalizedPath) ==
  With(throwOnCommonErrors(X, w, "remove", normalizedPath, FALSE, TRUE), LAMBDA error :
  With(findByRelativePath(X, w, normalizedPath, FALSE), LAMBDA result :
    IF error # "ok" THEN Throw(error, X)
    ELSE IF ~result.found THEN Throw("ENOENT", X)
    ELSE IF isSymbolicLink(result.entry) \/ isFile(result.entry)
         THEN unlinkSync(X, w, normalizedPath)
         ELSE rmdirSync(X, w, normalizedPath)))

\* [].reverse()
Reverse(s) == [i \in 1..Len(s) |-> s[Len(s) + 1 - i]]

RECURSIVE SkipToContents(_, _, _)
\* while (entry && !startsWith(entry.relativePath, prefix)) index++
SkipToContents(array, prefix, index) ==
  IF index >= Len(array) THEN index
  ELSE IF startsWith(At(array, index).relativePath, prefix) THEN index
  ELSE SkipToContents(array, prefix, index + 1)

RECURSIVE TakeContents(_, _, _)
\* while (entry && startsWith(entry.relativePath, prefix)) entries.push(entry)
TakeContents(array, prefix, index) ==
  IF index >= Len(array) THEN <<>>
  ELSE IF startsWith(At(array, index).relativePath, prefix)
       THEN <<At(array, index)>> \o TakeContents(array, prefix, index + 1)
       ELSE <<>>

RECURSIVE emptyLoop(_, _, _)
\* entries.reverse().forEach(...) of emptySync; an error ends it.
emptyLoop(X, w, toRemove) ==
  IF toRemove = <<>> THEN Return(X)
  ELSE With(IF isSymbolicLink(Head(toRemove)) \/ isFile(Head(toRemove))
            THEN unlinkSync(X, w, Head(toRemove).relativePath)
            ELSE rmdirSync(X, w, Head(toRemove).relativePath), LAMBDA removed :
         IF removed.result # "ok" THEN removed
         ELSE emptyLoop(removed.world, w, Tail(toRemove)))

emptySync(X, w, normalizedPath) ==
  With(throwOnCommonErrors(X, w, "empty", normalizedPath, TRUE, FALSE), LAMBDA error :
  With(findByRelativePath(X, w, normalizedPath, TRUE), LAMBDA result :
  With(searchByRelativePath(X.entries[w], normalizedPath, FALSE), LAMBDA index :
  With(SkipToContents(X.entries[w], ensureSeparator(normalizedPath), index + 1), LAMBDA first :
  With(IF normalizedPath = <<>> THEN X.entries[w]
       ELSE TakeContents(X.entries[w], ensureSeparator(normalizedPath), first), LAMBDA contents :
  With(Reverse(contents), LAMBDA reversed :
    IF error # "ok" THEN Throw(error, X)
    ELSE IF ~result.found THEN Throw("ENOENT", X)
    ELSE IF isFile(result.entry) THEN Throw("ENOTDIR", X)
    ELSE emptyLoop(X, w, reversed)))))))

\* writeFileSync without the return at an unchanged checksum.
writeFileSyncUnchecked(X, w, normalizedPath, content) ==
  With(throwOnCommonErrors(X, w, "writeFile", normalizedPath, FALSE, FALSE), LAMBDA error :
  With(findByRelativePath(X, w, normalizedPath, TRUE), LAMBDA result :
  With(Entry(normalizedPath, Len(content), now,
             IF result.found THEN result.entry.mode ELSE FILE_MODE,
             md5hex(content)), LAMBDA entry :
    IF error # "ok" THEN Throw(error, X)
    ELSE IF result.found /\ isDirectory(result.entry) THEN Throw("EISDIR", X)
    ELSE IF fsRootError(X, w) # "ok" THEN Throw(fsRootError(X, w), X)
    ELSE IF ~fsParentIsDirectory(X, w, normalizedPath) THEN Throw("ENOTDIR", X)
    ELSE Return(trackAndInsert(X, w, IF result.found THEN "change" ELSE "create", entry)))))

writeFileSync(X, w, normalizedPath, content) ==
  With(throwOnCommonErrors(X, w, "writeFile", normalizedPath, FALSE, FALSE), LAMBDA error :
  With(findByRelativePath(X, w, normalizedPath, TRUE), LAMBDA result :
  With(Entry(normalizedPath, Len(content), now,
             IF result.found THEN result.entry.mode ELSE FILE_MODE,
             md5hex(content)), LAMBDA entry :
    IF error # "ok" THEN Throw(error, X)
    ELSE IF result.found /\ isDirectory(result.entry) THEN Throw("EISDIR", X)
    ELSE IF result.found /\ result.entry.checksum = entry.checksum THEN Noop(X)
    ELSE IF fsRootError(X, w) # "ok" THEN Throw(fsRootError(X, w), X)
    ELSE IF ~fsParentIsDirectory(X, w, normalizedPath) THEN Throw("ENOTDIR", X)
    ELSE Return(trackAndInsert(X, w, IF result.found THEN "change" ELSE "create", entry)))))

symlinkSync(X, w, normalizedPath) ==
  With(throwOnCommonErrors(X, w, "symlink", normalizedPath, FALSE, FALSE), LAMBDA error :
  With(findByRelativePath(X, w, normalizedPath, TRUE), LAMBDA result :
  With([Entry(normalizedPath, undefined, now, FILE_MODE, <<>>)
          EXCEPT !.symlink = ExternalLink], LAMBDA entry :
    IF error # "ok" THEN Throw(error, X)
    ELSE IF result.found THEN Throw("EEXIST", X)
    ELSE IF fsRootError(X, w) # "ok" THEN Throw(fsRootError(X, w), X)
    ELSE IF ~fsParentIsDirectory(X, w, normalizedPath) THEN Throw("ENOTDIR", X)
    ELSE Return(trackAndInsert(X, w, "create", entry)))))

(***************************************************************************)
(* Sorting and diffing.                                                    *)
(***************************************************************************)
compareEntries(a, b) == comparePaths(a.relativePath, b.relativePath)

\* shared.compareChanges: removals first and descending, additions ascending.
compareChanges(a, b) ==
  LET operationTypeA == IF a.op \in {"rmdir", "unlink"} THEN "remove" ELSE "add"
      operationTypeB == IF b.op \in {"rmdir", "unlink"} THEN "remove" ELSE "add"
  IN IF operationTypeA = "remove" /\ operationTypeB = "add" THEN -1
     ELSE IF operationTypeA = "add" /\ operationTypeB = "remove" THEN 1
     ELSE IF operationTypeA = "remove" THEN 0 - comparePaths(a.path, b.path)
     ELSE comparePaths(a.path, b.path)

RECURSIVE sortEntries(_)
\* array.sort(shared.compareEntries); elements that compare equal keep their order.
sortEntries(array) ==
  IF Len(array) <= 1 THEN array
  ELSE With(sortEntries(SubSeq(array, 1, Len(array) - 1)), LAMBDA sorted :
         LET x == array[Len(array)]
             before == Cardinality({i \in 1..Len(sorted) : compareEntries(sorted[i], x) <= 0})
         IN SpliceIn(sorted, before, x))

RECURSIVE sortChanges(_)
\* array.sort(shared.compareChanges); elements that compare equal keep their order.
sortChanges(array) ==
  IF Len(array) <= 1 THEN array
  ELSE With(sortChanges(SubSeq(array, 1, Len(array) - 1)), LAMBDA sorted :
         LET x == array[Len(array)]
             before == Cardinality({i \in 1..Len(sorted) : compareChanges(sorted[i], x) <= 0})
         IN SpliceIn(sorted, before, x))

Change(operation, entry) == [op |-> operation, path |-> entry.relativePath, entry |-> entry]

addCommand(entry) == Change(IF isDirectory(entry) THEN "mkdir" ELSE "create", entry)
\* removeCommand that tells no directory from a file.
removeCommandUnlink(entry) == Change("unlink", entry)

removeCommand(entry) == Change(IF isDirectory(entry) THEN "rmdir" ELSE "unlink", entry)
updateCommand(entry) == Change("change", entry)

\* ManualTree.defaultIsEqual
defaultIsEqual(entryA, entryB) ==
  IF isDirectory(entryA) /\ isDirectory(entryB) THEN TRUE
  ELSE /\ entryA.size = entryB.size
       /\ entryA.mtime = entryB.mtime
       /\ entryA.mode = entryB.mode

RECURSIVE patchLoop(_, _, _, _)
\* The loops of calculatePatch: <<removals, additions>> from ours[i..] and theirs[j..].
patchLoop(ours, theirs, i, j) ==
  IF i >= Len(ours) /\ j >= Len(theirs) THEN <<(<<>>), (<<>>)>>
  ELSE IF j >= Len(theirs)
       THEN With(patchLoop(ours, theirs, i + 1, j), LAMBDA rest :
              <<(<<removeCommand(At(ours, i))>> \o rest[1]), rest[2]>>)
  ELSE IF i >= Len(ours)
       THEN With(patchLoop(ours, theirs, i, j + 1), LAMBDA rest :
              <<rest[1], (<<addCommand(At(theirs, j))>> \o rest[2])>>)
  ELSE LET x == At(ours, i)
           y == At(theirs, j)
       IN IF StringLess(x.relativePath, y.relativePath)
          THEN With(patchLoop(ours, theirs, i + 1, j), LAMBDA rest :
                 <<(<<removeCommand(x)>> \o rest[1]), rest[2]>>)
          ELSE IF StringLess(y.relativePath, x.relativePath)
          THEN With(patchLoop(ours, theirs, i, j + 1), LAMBDA rest :
                 <<rest[1], (<<addCommand(y)>> \o rest[2])>>)
          ELSE With(patchLoop(ours, theirs, i + 1, j + 1), LAMBDA rest :
                 IF defaultIsEqual(x, y) THEN rest
                 ELSE IF isFile(x) = isFile(y)
                      THEN <<rest[1], (<<updateCommand(y)>> \o rest[2])>>
                      ELSE <<(<<removeCommand(x)>> \o rest[1]),
                             (<<addCommand(y)>> \o rest[2])>>)

\* calculatePatch that returns the additions ahead of the removals.
calculatePatchAdditionsFirst(ours, theirs) ==
  With(patchLoop(ours, theirs, 0, 0), LAMBDA r : r[2] \o Reverse(r[1]))

\* calculatePatch that returns the removals in the order they were pushed.
calculatePatchUnreversed(ours, theirs) ==
  With(patchLoop(ours, theirs, 0, 0), LAMBDA r : r[1] \o r[2])

\* ManualTree.prototype.calculatePatch with the default equality.
calculatePatch(ours, theirs) ==
  With(patchLoop(ours, theirs, 0, 0), LAMBDA r : Reverse(r[1]) \o r[2])

(***************************************************************************)
(* Directory listings, projections and the entries getters.                *)
(***************************************************************************)
RECURSIVE HasSeparator(_)
\* relativePath.indexOf('/') !== -1
HasSeparator(path) ==
  IF path = <<>> THEN FALSE
  ELSE IF Head(path) = sep THEN TRUE
  ELSE HasSeparator(Tail(path))

RECURSIVE TakeChildren(_, _, _)
\* The last loop of _getEntriesFromArrayForDirectory.
TakeChildren(array, prefix, index) ==
  IF index >= Len(array) THEN <<>>
  ELSE IF ~startsWith(At(array, index).relativePath, prefix) THEN <<>>
  ELSE With(TakeChildren(array, prefix, index + 1), LAMBDA rest :
         LET relativePath == substring(At(array, index).relativePath, Len(prefix))
         IN IF HasSeparator(relativePath) THEN rest
            ELSE <<clone(At(array, index), relativePath)>> \o rest)

\* FacadeTree.prototype._getEntriesFromArrayForDirectory
getEntriesFromArrayForDirectory(array, normalizedPath) ==
  With(searchByRelativePath(array, normalizedPath, FALSE), LAMBDA found :
  With(normalizedPath = <<>>
       \/ (Len(array) > 0
           /\ startsWith(At(array, 0).relativePath, ensureSeparator(normalizedPath))),
       LAMBDA atStart :
  With(SkipToContents(array, ensureSeparator(normalizedPath),
                      IF atStart THEN 0 ELSE found + 1), LAMBDA first :
    IF ~atStart /\ found = -1 THEN <<>>
    ELSE TakeChildren(array, ensureSeparator(normalizedPath), first))))

RECURSIVE getEntriesForDirectory(_, _, _)
\* Projection.prototype._getEntriesForDirectory; without include or exclude
\* matchers its filter keeps every entry the parent lists.
projectionGetEntriesForDirectory(X, P, normalizedPath) ==
  IF P.hasFiles THEN getEntriesFromArrayForDirectory(P.entriesFromFiles, normalizedPath)
  ELSE getEntriesForDirectory(X, P.parent, joinPaths(P.cwd, normalizedPath))

\* WritableTree.prototype._getEntriesForDirectory and, for a Delegator, the
\* forwarding Delegator.prototype._getEntriesForDirectory.  The ENOTDIR case
\* (the path names a file) lists nothing: the entries getters never ask it.
getEntriesForDirectory(X, w, normalizedPath) ==
  IF X.delegate[w] # 0
  THEN projectionGetEntriesForDirectory(X, X.proj[X.delegate[w]], normalizedPath)
  ELSE
  With(searchByRelativePath(X.entries[w], normalizedPath, TRUE), LAMBDA index :
  With(WalkBack(X.entries[w], normalizedPath, index), LAMBDA back :
    LET array == X.entries[w]
        projected(entry, rest) ==
          projectionGetEntriesForDirectory(X, X.proj[entry.symlink.proj], rest)
    IN IF normalizedPath = <<>> THEN getEntriesFromArrayForDirectory(array, <<>>)
       ELSE IF index = -1 THEN <<>>
       ELSE IF At(array, index).relativePath = normalizedPath
       THEN (IF ~isDirectory(At(array, index)) THEN <<>>
             ELSE IF isSymbolicLink(At(array, index)) THEN projected(At(array, index), <<>>)
             ELSE getEntriesFromArrayForDirectory(array, normalizedPath))
       ELSE IF back = -1 THEN <<>>
       ELSE LET entry == At(array, back)
                relativePathWithSeparator == ensureSeparator(entry.relativePath)
            IN IF isSymbolicLink(entry) /\ isDirectory(entry)
                  /\ startsWith(normalizedPath, relativePathWithSeparator)
               THEN projected(entry, substring(normalizedPath, Len(relativePathWithSeparator)))
               ELSE <<>>))

RECURSIVE filterEntries(_, _, _)
RECURSIVE filterEach(_, _, _)
\* The closure filterEntries of Projection's entries getter, for a projection
\* without include or exclude matchers: what it pushes to filteredEntries.
filterEntries(X, P, normalizedPath) ==
  With(getEntriesForDirectory(X, P.parent, normalizedPath), LAMBDA listed :
  With([i \in 1..Len(listed) |->
          clone(listed[i], joinPaths(normalizedPath, listed[i].relativePath))], LAMBDA joined :
    filterEach(X, P, joined)))

\* The for loop of filterEntries.
filterEach(X, P, listed) ==
  IF listed = <<>> THEN <<>>
  ELSE LET entry == Head(listed)
           pushed == IF filterMatches(entry.relativePath, P.cwd, FALSE, <<>>)
                     THEN <<entry>> ELSE <<>>
           below == IF isDirectory(entry) THEN filterEntries(X, P, entry.relativePath) ELSE <<>>
       IN pushed \o below \o filterEach(X, P, Tail(listed))

\* The entries getter of Projection.
projectionEntries(X, P) ==
  IF P.hasFiles THEN P.entriesFromFiles
  ELSE With(filterEntries(X, P, P.cwd), LAMBDA filteredEntries :
       With([i \in 1..Len(filteredEntries) |->
               clone(filteredEntries[i],
                     substring(filteredEntries[i].relativePath, Len(ensureSeparator(P.cwd))))],
            LAMBDA mapped :
         sortEntries(mapped)))

RECURSIVE combineEntries(_, _)
\* The forEach of WritableTree's entries getter.
combineEntries(X, array) ==
  IF array = <<>> THEN <<>>
  ELSE With(IF isSymbolicLink(Head(array)) /\ isDirectory(Head(array))
            THEN projectionEntries(X, X.proj[Head(array).symlink.proj]) ELSE <<>>,
            LAMBDA linked :
         <<Head(array)>>
         \o [i \in 1..Len(linked) |->
               clone(linked[i], joinPaths(Head(array).relativePath, linked[i].relativePath))]
         \o combineEntries(X, Tail(array)))

\* The entries getter of WritableTree and, for a Delegator, of Delegator.
treeEntries(X, w) ==
  IF X.delegate[w] # 0 THEN projectionEntries(X, X.proj[X.delegate[w]])
  ELSE With(combineEntries(X, X.entries[w]), LAMBDA combined : sortEntries(combined))

(***************************************************************************)
(* changes().                                                              *)
(***************************************************************************)
\* shared.validateSortedUnique: whether it returns without throwing.
validateSortedUnique(array) ==
  \A i \in 1..(Len(array) - 1) : StringLess(array[i].relativePath, array[i + 1].relativePath)

\* Projection.prototype.changes: the patch from the snapshot of the last reread.
projectionChanges(X, P) ==
  With(projectionEntries(X, P), LAMBDA theirs :
    calculatePatch(IF P.hasPrevious THEN P.previousEntries ELSE <<>>, theirs))

RECURSIVE trackedChanges(_, _)
\* The while loop of WritableTree.prototype.changes.
trackedChanges(X, list) ==
  IF list = <<>> THEN <<>>
  ELSE With(IF isSymbolicLink(Head(list).entry) /\ isDirectory(Head(list).entry)
            THEN projectionEntries(X, X.proj[Head(list).entry.symlink.proj]) ELSE <<>>,
            LAMBDA linked :
         <<Head(list)>>
         \o [i \in 1..Len(linked) |->
               addCommand(clone(linked[i],
                                joinPaths(Head(list).path, linked[i].relativePath)))]
         \o trackedChanges(X, Tail(list)))

\* A while loop that adds no path to traversedSymlinks.
traversedSymlinksNone(list) == {}

\* The paths the while loop adds to traversedSymlinks.
traversedSymlinks(list) ==
  {list[i].path : i \in {j \in 1..Len(list) :
                          isSymbolicLink(list[j].entry) /\ isDirectory(list[j].entry)}}

RECURSIVE untraversedChanges(_, _, _)
\* The for loop of WritableTree.prototype.changes.
untraversedChanges(X, array, traversed) ==
  IF array = <<>> THEN <<>>
  ELSE With(IF isSymbolicLink(Head(array)) /\ isDirectory(Head(array))
               /\ Head(array).relativePath \notin traversed
            THEN projectionChanges(X, X.proj[Head(array).symlink.proj]) ELSE <<>>,
            LAMBDA linked :
         [i \in 1..Len(linked) |->
            Change(linked[i].op,
                   clone(linked[i].entry,
                         joinPaths(Head(array).relativePath, linked[i].path)))]
         \o untraversedChanges(X, Tail(array), traversed))

\* WritableTree.prototype.changes and, for a Delegator, Delegator.prototype.changes
changes(X, w) ==
  IF X.delegate[w] # 0 THEN projectionChanges(X, X.proj[X.delegate[w]])
  ELSE
  With(trackedChanges(X, X.tracker[w].list), LAMBDA tracked_ :
  With(untraversedChanges(X, X.entries[w], traversedSymlinks(X.tracker[w].list)),
       LAMBDA untraversed :
  With(tracked_ \o untraversed, LAMBDA all : sortChanges(all))))

(***************************************************************************)
(* Links between trees, Delegators and rereads.                            *)
(***************************************************************************)
\* new Projection({ cwd, parent }), as FacadeTree.prototype.chdir makes it: the
\* constructor adds it to its parent's _children.
Projection(parent, cwd) ==
  [parent |-> parent, cwd |-> cwd, attached |-> TRUE,
   hasFiles |-> FALSE, files |-> <<>>, entriesFromFiles |-> <<>>,
   hasPrevious |-> FALSE, previousEntries |-> <<>>]

\* The link entry symlinkToFacadeSync makes at localNormalizedPath for what it
\* found at the target; a directory is linked through the projection chdir
\* returns, which takes the next place among the projections.
linkEntry(X, targetResult, localNormalizedPath) ==
  IF isDirectory(targetResult.entry)
  THEN [Entry(localNormalizedPath, undefined, now, DIRECTORY_MODE, <<>>)
          EXCEPT !.symlink = DirectoryLink(Len(X.proj) + 1)]
  ELSE [Entry(localNormalizedPath, undefined, now, FILE_MODE, <<>>)
          EXCEPT !.symlink = FileLink(targetResult.tree, targetResult.entry)]

\* symlinkToFacadeSync that links the root of a tree whatever the tree holds.
symlinkToFacadeSyncOverEntries(X, w, targetFacade, targetNormalizedPath, localNormalizedPath) ==
  With(throwOnCommonErrors(X, w, "symlinkToFacade", localNormalizedPath, TRUE, FALSE),
       LAMBDA error :
  With(findByRelativePath(X, targetFacade, targetNormalizedPath, TRUE), LAMBDA targetResult :
  With(findByRelativePath(X, w, localNormalizedPath, TRUE), LAMBDA localResult :
  With(linkEntry(X, targetResult, localNormalizedPath), LAMBDA entry :
  With([X EXCEPT !.proj = Append(@, Projection(targetFacade, targetNormalizedPath))],
       LAMBDA chdir :
    IF error # "ok" THEN Throw(error, X)
    ELSE IF localNormalizedPath = <<>>
    THEN (IF fsRootError(X, w) # "ok" THEN Throw(fsRootError(X, w), X)
          ELSE IF ~targetResult.found THEN Throw("ENOENT", [X EXCEPT !.root[w] = "missing"])
          ELSE IF isFile(targetResult.entry)
               THEN Throw("ENOTDIR", [X EXCEPT !.root[w] = "symlink"])
          ELSE Return([chdir EXCEPT !.delegate[w] = Len(chdir.proj),
                                    !.root[w] = "symlink"]))
    ELSE IF ~targetResult.found THEN Throw("ENOENT", X)
    ELSE IF localResult.found THEN Throw("EEXIST", X)
    ELSE IF fsRootError(X, w) # "ok" THEN Throw(fsRootError(X, w), X)
    ELSE IF ~fsParentIsDirectory(X, w, localNormalizedPath) THEN Throw("ENOTDIR", X)
    ELSE Return(trackAndInsert(IF isDirectory(targetResult.entry) THEN chdir ELSE X, w,
                               IF isDirectory(targetResult.entry) THEN "mkdir" ELSE "create",
                               entry)))))))

\* WritableTree.prototype.symlinkToFacadeSync.  For the root, fs.rmdirSync has
\* removed the directory and symlinkOrCopy.sync has linked what is there to
\* link (nothing, where the target is absent) by the time chdir looks at the
\* target and throws.
symlinkToFacadeSync(X, w, targetFacade, targetNormalizedPath, localNormalizedPath) ==
  With(throwOnCommonErrors(X, w, "symlinkToFacade", localNormalizedPath, TRUE, FALSE),
       LAMBDA error :
  With(findByRelativePath(X, targetFacade, targetNormalizedPath, TRUE), LAMBDA targetResult :
  With(findByRelativePath(X, w, localNormalizedPath, TRUE), LAMBDA localResult :
  With(linkEntry(X, targetResult, localNormalizedPath), LAMBDA entry :
  With([X EXCEPT !.proj = Append(@, Projection(targetFacade, targetNormalizedPath))],
       LAMBDA chdir :
    IF error # "ok" THEN Throw(error, X)
    ELSE IF localNormalizedPath = <<>>
    THEN (IF Len(X.entries[w]) > 0 THEN Throw("ENOTEMPTY", X)
          ELSE IF fsRootError(X, w) # "ok" THEN Throw(fsRootError(X, w), X)
          ELSE IF ~targetResult.found THEN Throw("ENOENT", [X EXCEPT !.root[w] = "missing"])
          ELSE IF isFile(targetResult.entry)
               THEN Throw("ENOTDIR", [X EXCEPT !.root[w] = "symlink"])
          ELSE Return([chdir EXCEPT !.delegate[w] = Len(chdir.proj),
                                    !.root[w] = "symlink"]))
    ELSE IF ~targetResult.found THEN Throw("ENOENT", X)
    ELSE IF localResult.found THEN Throw("EEXIST", X)
    ELSE IF fsRootError(X, w) # "ok" THEN Throw(fsRootError(X, w), X)
    ELSE IF ~fsParentIsDirectory(X, w, localNormalizedPath) THEN Throw("ENOTDIR", X)
    ELSE Return(trackAndInsert(IF isDirectory(targetResult.entry) THEN chdir ELSE X, w,
                               IF isDirectory(targetResult.entry) THEN "mkdir" ELSE "create",
                               entry)))))))

RECURSIVE trackAll(_, _)
\* The for loop of undoRootSymlinkSync: _track(change[0], change[2]) for each change.
trackAll(K, list) ==
  IF list = <<>> THEN K
  ELSE With(track(K, Head(list).op, Head(list).entry), LAMBDA K1 : trackAll(K1, Tail(list)))

\* undoRootSymlinkSync without the removal of the delegation links.
undoRootSymlinkSyncKeepingDelegate(X, w) ==
  With(projectionChanges(X, X.proj[X.delegate[w]]), LAMBDA delegateChanges :
  With(projectionEntries(X, X.proj[X.delegate[w]]), LAMBDA delegateEntries :
  With(delegateChanges \o calculatePatch(delegateEntries, <<>>), LAMBDA all :
    IF state[w] = "stopped" THEN Throw("stopped", X)
    ELSE Return([X EXCEPT !.tracker[w] = trackAll(@, all), !.root[w] = "directory"]))))

\* Delegator.prototype.undoRootSymlinkSync
undoRootSymlinkSync(X, w) ==
  With(projectionChanges(X, X.proj[X.delegate[w]]), LAMBDA delegateChanges :
  With(projectionEntries(X, X.proj[X.delegate[w]]), LAMBDA delegateEntries :
  With(delegateChanges \o calculatePatch(delegateEntries, <<>>), LAMBDA all :
    IF state[w] = "stopped" THEN Throw("stopped", X)
    ELSE Return([X EXCEPT !.delegate[w] = 0, !.tracker[w] = trackAll(@, all),
                          !.root[w] = "directory"]))))

RECURSIVE rereadChildren(_, _)
\* FacadeTree.prototype._reread of the trees in S: every projection among their
\* children takes its snapshot (Projection.prototype._reread) and passes the
\* call on to the Delegators that delegate to it.
rereadChildren(X, S) ==
  LET children == {i \in 1..Len(X.proj) : X.proj[i].attached /\ X.proj[i].parent \in S}
      delegators == {d \in DOMAIN X.delegate : X.delegate[d] \in children}
  IN IF delegators \subseteq S
     THEN [X EXCEPT !.proj = [i \in 1..Len(X.proj) |->
             IF i \in children
             THEN [X.proj[i] EXCEPT !.hasPrevious = TRUE,
                                    !.previousEntries = projectionEntries(X, X.proj[i])]
             ELSE X.proj[i]]]
     ELSE rereadChildren(X, S \cup delegators)

\* reread() that a Delegator passes on as a WritableTree does.
rereadThroughDelegator(X, w) == Return(rereadChildren(X, {w}))

\* FacadeTree.prototype.reread; Delegator.prototype.reread does nothing.
reread(X, w) == IF X.delegate[w] # 0 THEN Noop(X) ELSE Return(rereadChildren(X, {w}))

(***************************************************************************)
(* Projections with a files filter: their entries are made from the files  *)
(* by shared.sortAndExpand when the filter is set.                         *)
(***************************************************************************)
\* Entry.fromPath: a path that ends in a separator is a directory, and a
\* directory's relativePath is kept without that separator.
fromPath(path_) ==
  IF path_ # <<>> /\ path_[Len(path_)] = sep
  THEN Entry(SubSeq(path_, 1, Len(path_) - 1), undefined, 0, DIRECTORY_MODE, <<>>)
  ELSE Entry(path_, undefined, 0, FILE_MODE, <<>>)

\* shared._commonPrefix: a up to the last term before a and b differ.
commonPrefix(a, b, term) ==
  LET ends == {i \in 1..Len(a) : /\ i <= Len(b)
                                  /\ a[i] = term
                                  /\ \A j \in 1..i : a[j] = b[j]}
  IN SubSeq(a, 1, IF ends = {} THEN 0 ELSE CHOOSE i \in ends : \A j \in ends : j <= i)

\* shared._basename: the entry's path up to its last separator but the final
\* character (entryRelativePath has taken a directory's trailing separator).
basename(entry) ==
  LET seps == {i \in 1..(Len(entry.relativePath) - 1) : entry.relativePath[i] = sep}
  IN SubSeq(entry.relativePath, 1,
            IF seps = {} THEN 0 ELSE CHOOSE i \in seps : \A j \in seps : j <= i)

\* shared._computeImpliedEntries: one directory for each separator of relativePath.
computeImpliedEntries(basePath, relativePath) ==
  LET seps == {i \in 1..Len(relativePath) : relativePath[i] = sep}
  IN [k \in 1..Cardinality(seps) |->
        fromPath(basePath \o SubSeq(relativePath, 1,
                   CHOOSE i \in seps : Cardinality({j \in seps : j <= i}) = k))]

RECURSIVE sortAndExpandLoop(_, _, _)
\* The for loop of sortAndExpand, from index i with path_ as it then is.
sortAndExpandLoop(array, i, path_) ==
  IF i >= Len(array) THEN array
  ELSE With(commonPrefix(path_, At(array, i).relativePath, sep), LAMBDA common :
       With(basename(At(array, i)), LAMBDA base :
       With(computeImpliedEntries(common, substring(base, Len(common))),
            LAMBDA impliedEntries :
         sortAndExpandLoop(
           SubSeq(array, 1, i) \o impliedEntries \o SubSeq(array, i + 1, Len(array)),
           i + Len(impliedEntries) + 1,
           IF isDirectory(At(array, i)) THEN At(array, i).relativePath \o <<sep>>
           ELSE base))))

\* shared.sortAndExpand
sortAndExpand(array) ==
  With(sortEntries(array), LAMBDA sorted : sortAndExpandLoop(sorted, 0, <<>>))

\* The files setter of Projection; value is null (has = FALSE) or an array of
\* normalized paths.
setFiles(P, value) ==
  IF value.has = P.hasFiles /\ value.list = P.files THEN P
  ELSE IF value.has
  THEN [P EXCEPT !.hasFiles = TRUE, !.files = value.list,
                 !.entriesFromFiles =
                    sortAndExpand([i \in 1..Len(value.list) |-> fromPath(value.list[i])])]
  ELSE [P EXCEPT !.hasFiles = FALSE, !.files = <<>>, !.entriesFromFiles = <<>>]

(***************************************************************************)
(* verifyChangeOrder, the test helper that says when a patch is in a valid *)
(* order.  priorChanges is a function from paths to what was seen of them. *)
(***************************************************************************)
RECURSIVE markParents(_, _, _)
\* The while loop over the parents of relativePath.
markParents(priorChanges, parent, verdict) ==
  IF parent = <<>> THEN [verdict |-> verdict, priorChanges |-> priorChanges]
  ELSE IF parent \in DOMAIN priorChanges
       THEN markParents(priorChanges, dirname(parent),
                        IF verdict = "ok" /\ priorChanges[parent] = "rmdir"
                        THEN "child modified after parent removed" ELSE verdict)
       ELSE markParents(priorChanges @@ (parent :> "child path changed"),
                        dirname(parent), verdict)

RECURSIVE verifyLoop(_, _)
\* The for loop of verifyChangeOrder: "ok", or what the error thrown says.
verifyLoop(list, priorChanges) ==
  IF list = <<>> THEN "ok"
  ELSE IF Head(list).path \in DOMAIN priorChanges
  THEN (IF priorChanges[Head(list).path] = "rmdir" /\ Head(list).op = "create"
        THEN verifyLoop(Tail(list), priorChanges)
        ELSE IF priorChanges[Head(list).path] = "unlink" /\ Head(list).op = "mkdir"
        THEN verifyLoop(Tail(list), priorChanges)
        ELSE IF priorChanges[Head(list).path] # "child path changed"
        THEN "multiple changes for the same path"
        ELSE IF Head(list).op = "mkdir" THEN "parent created after child modifications"
        ELSE verifyLoop(Tail(list), priorChanges))
  ELSE With(markParents(priorChanges @@ (Head(list).path :> Head(list).op),
                        dirname(Head(list).path), "ok"), LAMBDA marked :
         IF marked.verdict # "ok" THEN marked.verdict
         ELSE verifyLoop(Tail(list), marked.priorChanges))

verifyChangeOrder(list) == verifyLoop(list, [path \in {} |-> "none"])

(***************************************************************************)
(* The calls a client makes.                                               *)
(***************************************************************************)
Trees == {1, 2}

\* The paths and contents clients pass to a lone WritableTree.
Paths == {<<>>, <<"a">>, <<"a", "/", "b">>}
Contents == {<<"x">>, <<"y">>, <<"x", "y">>}

\* lastCall while nobody looks at how the calls end.
Unobserved == [op |-> "none", tree |-> 0, path |-> <<>>, result |-> "ok"]

\* What lastCall becomes: calls are recorded once the client observes them.
Observe(call) == IF lastCall = Unobserved THEN Unobserved ELSE call

\* new WritableTree(...) for every tree: no entries, stopped, nothing tracked.
Constructed ==
  /\ entries = [t \in Trees |-> <<>>]
  /\ state = [t \in Trees |-> "stopped"]
  /\ tracker = [t \in Trees |-> EmptyTracker]
  /\ now = 0
  /\ startEntries = [t \in Trees |-> <<>>]
  /\ proj = <<>>
  /\ delegate = [t \in Trees |-> 0]
  /\ rootOnDisk = [t \in Trees |-> "directory"]

\* No ManualTree was made and no patch is applied.
NoPatch ==
  /\ oursTree = <<>>
  /\ theirsTree = <<>>
  /\ patch = <<>>
  /\ applied = -1
  /\ failure = "none"
  /\ disk = {}
  /\ canSymlink = TRUE

\* No Projection was given filters.
NoFilter ==
  /\ parentTree = <<>>
  /\ filters = [cwd |-> <<>>, hasInclude |-> FALSE, include |-> {}, exclude |-> {}]

\* No FSMergeTree was made.
NoMerge ==
  /\ inputTrees = <<>>
  /\ overwrite = "null"
  /\ currentTree = <<>>
  /\ mergeResult = [op |-> "none", error |-> "none", returned |-> <<>>]

\* normalizeRelativePath was not called.
NoNormalize ==
  /\ normalizedPaths = {}
  /\ normalized = [called |-> FALSE, path |-> <<>>, error |-> "none", returned |-> <<>>]

\* No SourceTree was made.
NoSource ==
  /\ childPrevious = <<>>
  /\ quietRereads = 0
  /\ sourceDisk = {}
  /\ sourceEntries = <<>>
  /\ scannedDirectories = {}
  /\ sourcePrevious = <<>>
  /\ scans = <<>>

Init ==
  /\ Constructed
  /\ NoPatch
  /\ NoSource
  /\ NoFilter
  /\ NoMerge
  /\ NoNormalize
  /\ lastCall = Unobserved

\* A write operation was called and ended as r says.
Call(operation, w, normalizedPath, r) ==
  /\ entries' = r.world.entries
  /\ tracker' = r.world.tracker
  /\ proj' = r.world.proj
  /\ delegate' = r.world.delegate
  /\ rootOnDisk' = r.world.root
  /\ lastCall' = Observe([op |-> operation, tree |-> w, path |-> normalizedPath,
                           result |-> r.result])
  /\ UNCHANGED <<state, now, startEntries, patchVars, sourceVars, filterVars, mergeVars, normalizeVars>>

\* start() without the reset of _firstChange, _lastChange and _changeHash.
StartKeepingChanges(w) ==
  /\ state' = [state EXCEPT ![w] = "started"]
  /\ \E exposed \in {treeEntries(World, w)} :
       startEntries' = [startEntries EXCEPT ![w] = exposed]
  /\ lastCall' = Observe([op |-> "start", tree |-> w, path |-> <<>>, result |-> "ok"])
  /\ UNCHANGED <<entries, tracker, now, proj, delegate, rootOnDisk, patchVars, sourceVars, filterVars, mergeVars, normalizeVars>>

\* WritableTree.prototype.start
Start(w) ==
  /\ state' = [state EXCEPT ![w] = "started"]
  /\ tracker' = [tracker EXCEPT ![w] = EmptyTracker]
  /\ \E exposed \in {treeEntries(World, w)} :
       startEntries' = [startEntries EXCEPT ![w] = exposed]
  /\ lastCall' = Observe([op |-> "start", tree |-> w, path |-> <<>>, result |-> "ok"])
  /\ UNCHANGED <<entries, now, proj, delegate, rootOnDisk, patchVars, sourceVars, filterVars, mergeVars, normalizeVars>>

\* WritableTree.prototype.stop
Stop(w) ==
  /\ state' = [state EXCEPT ![w] = "stopped"]
  /\ lastCall' = Observe([op |-> "stop", tree |-> w, path |-> <<>>, result |-> "ok"])
  /\ UNCHANGED <<entries, tracker, now, startEntries, proj, delegate, rootOnDisk, patchVars, sourceVars, filterVars, mergeVars, normalizeVars>>

\* Time passes: Date.now() returns a later millisecond.
Tick ==
  /\ now < MaxClock
  /\ now' = now + 1
  /\ UNCHANGED <<entries, state, tracker, lastCall, startEntries, proj, delegate, rootOnDisk, patchVars, sourceVars, filterVars, mergeVars, normalizeVars>>

\* Write methods that a Delegator has as a WritableTree has them.
WritableAlways(w, r) == r

\* The write methods are WritableTree.prototype's: the prototype of a Delegator
\* does not have them, and calling one is a TypeError.
Writable(w, r) == IF delegate[w] # 0 THEN Throw("TypeError", World) ELSE r

MkdirSync(w, p) == \E r \in {Writable(w, mkdirSync(World, w, p))} : Call("mkdirSync", w, p, r)

MkdirpSync(w, p) == \E r \in {Writable(w, mkdirpSync(World, w, p))} : Call("mkdirpSync", w, p, r)

RmdirSync(w, p) == \E r \in {Writable(w, rmdirSync(World, w, p))} : Call("rmdirSync", w, p, r)

UnlinkSync(w, p) == \E r \in {Writable(w, unlinkSync(World, w, p))} : Call("unlinkSync", w, p, r)

RemoveSync(w, p) == \E r \in {Writable(w, removeSync(World, w, p))} : Call("removeSync", w, p, r)

EmptySync(w, p) == \E r \in {Writable(w, emptySync(World, w, p))} : Call("emptySync", w, p, r)

WriteFileSync(w, p, content) ==
  \E r \in {Writable(w, writeFileSync(World, w, p, content))} : Call("writeFileSync", w, p, r)

SymlinkSync(w, p) == \E r \in {Writable(w, symlinkSync(World, w, p))} : Call("symlinkSync", w, p, r)

SymlinkToFacadeSync(w, targetFacade, targetPath, localPath) ==
  \E r \in {Writable(w, symlinkToFacadeSync(World, w, targetFacade, targetPath, localPath))} :
    Call("symlinkToFacadeSync", w, localPath, r)

\* undoRootSymlinkSync is Delegator.prototype's: a WritableTree does not have it.
UndoRootSymlinkSync(w) ==
  \E r \in {IF delegate[w] = 0 THEN Throw("TypeError", World)
            ELSE undoRootSymlinkSync(World, w)} :
    Call("undoRootSymlinkSync", w, <<>>, r)

Reread(w) == \E r \in {reread(World, w)} : Call("reread", w, <<>>, r)

\* One WritableTree, written to and restarted by its client.
Next ==
  \/ Start(1)
  \/ Stop(1)
  \/ Tick
  \/ \E p \in Paths :
       \/ MkdirSync(1, p)
       \/ MkdirpSync(1, p)
       \/ RmdirSync(1, p)
       \/ UnlinkSync(1, p)
       \/ RemoveSync(1, p)
       \/ EmptySync(1, p)
       \/ \E content \in Contents : WriteFileSync(1, p, content)

Spec == Init /\ [][Next]_vars

\* FacadeTree.prototype.filtered with a files filter (or none).
Filtered(w, value) ==
  \E r \in {Return([World EXCEPT !.proj = Append(@, setFiles(Projection(w, <<>>), value))])} :
    Call("filtered", w, <<>>, r)

\* projection.files = value
SetFiles(i, value) ==
  \E r \in {Return([World EXCEPT !.proj[i] = setFiles(@, value)])} :
    Call("files", proj[i].parent, <<>>, r)

(***************************************************************************)
(* Two trees: clients write to tree 1, and link tree 2 to what tree 1 has. *)
(***************************************************************************)
MaxProjections == 2
TargetPaths == {<<>>, <<"a">>, <<"a", "/", "b">>}
LocalPaths == {<<>>, <<"l">>}

LinkNext ==
  \/ state[1] = "stopped" /\ Start(1)
  \/ Start(2)
  \/ Stop(2)
  \/ Reread(1)
  \/ MkdirSync(1, <<"a">>)
  \/ \E content \in {<<"x">>, <<"y">>} : WriteFileSync(1, <<"a", "/", "b">>, content)
  \/ \E p \in TargetPaths \ {<<>>} : RemoveSync(1, p)
  \/ \E targetPath \in TargetPaths, localPath \in LocalPaths :
       /\ Len(proj) < MaxProjections
       /\ SymlinkToFacadeSync(2, 1, targetPath, localPath)
  \/ UnlinkSync(2, <<"l">>)
  \/ UndoRootSymlinkSync(2)

SpecLinks == Init /\ [][LinkNext]_vars

(***************************************************************************)
(* Tree 2 with a client that looks at how each of its calls ends; tree 1   *)
(* holds a directory for tree 2 to link to.                                *)
(***************************************************************************)
WriteOperations ==
  {"mkdirSync", "mkdirpSync", "rmdirSync", "unlinkSync", "removeSync", "emptySync",
   "writeFileSync", "symlinkSync", "symlinkToFacadeSync", "undoRootSymlinkSync"}

CallPaths == {<<>>, <<"a">>}

CallsInit ==
  /\ Constructed
  /\ NoPatch
  /\ NoSource
  /\ NoFilter
  /\ NoMerge
  /\ NoNormalize
  /\ lastCall = [op |-> "new", tree |-> 2, path |-> <<>>, result |-> "ok"]

CallsNext ==
  \/ state[1] = "stopped" /\ Start(1)
  \/ MkdirSync(1, <<"a">>)
  \/ Start(2)
  \/ Stop(2)
  \/ \E p \in CallPaths :
       \/ MkdirSync(2, p)
       \/ MkdirpSync(2, p)
       \/ RmdirSync(2, p)
       \/ UnlinkSync(2, p)
       \/ RemoveSync(2, p)
       \/ EmptySync(2, p)
       \/ WriteFileSync(2, p, <<"x">>)
       \/ SymlinkSync(2, p)
       \/ \E targetPath \in CallPaths :
            Len(proj) < MaxProjections /\ SymlinkToFacadeSync(2, 1, targetPath, p)
  \/ UndoRootSymlinkSync(2)

SpecCalls == CallsInit /\ [][CallsNext]_vars

(***************************************************************************)
(* One tree and the projections clients make of it with a files filter.    *)
(***************************************************************************)
FileLists ==
  {[has |-> FALSE, list |-> <<>>],
   [has |-> TRUE, list |-> <<>>],
   [has |-> TRUE, list |-> <<(<<"a", "/", "b">>)>>],
   [has |-> TRUE, list |-> <<(<<"a", ".", "b">>), (<<"a", "/", "b">>)>>],
   [has |-> TRUE, list |-> <<(<<"a", "/", "b">>), (<<"a", "/", "c">>)>>]}

FilesNext ==
  \/ Start(1)
  \/ Reread(1)
  \/ MkdirSync(1, <<"a">>)
  \/ \E content \in {<<"x">>, <<"y">>} : WriteFileSync(1, <<"a", "/", "b">>, content)
  \/ \E p \in TargetPaths \ {<<>>} : RemoveSync(1, p)
  \/ \E value \in FileLists : Len(proj) < MaxProjections /\ Filtered(1, value)
  \/ \E i \in 1..Len(proj), value \in FileLists : SetFiles(i, value)

SpecFiles == Init /\ [][FilesNext]_vars

\* A path lies beneath a directory.
Beneath(relativePath, directory) == startsWith(relativePath, directory \o <<sep>>)

(***************************************************************************)
(* ManualTree: two trees made from entry lists, the patch from one to the  *)
(* other, and applyPatch with the default delegate on an output directory  *)
(* that holds the first tree.                                              *)
(***************************************************************************)
\* The paths ManualTree entries are made for, in ascending order.
PatchPaths == <<(<<"a">>), (<<"a", ".", "b">>), (<<"a", "/", "b">>)>>

\* What a list holds for a path: nothing (0), a directory (1), or a file last
\* modified at 0 (2) or at 1 (3).
Variants == 0..3

Variant(relativePath, k) ==
  IF k = 1 THEN Entry(relativePath, undefined, 0, DIRECTORY_MODE, <<>>)
  ELSE Entry(relativePath, 1, k - 2, FILE_MODE, <<>>)

\* The entry list that holds variant choice[i] for PatchPaths[i].
EntryList(choice) ==
  LET chosen == SelectSeq([i \in 1..Len(PatchPaths) |-> <<i, choice[i]>>],
                          LAMBDA pair : pair[2] # 0)
  IN [j \in 1..Len(chosen) |-> Variant(PatchPaths[chosen[j][1]], chosen[j][2])]

\* The entry lists new ManualTree({ entries }) accepts.
EntryLists == {EntryList(choice) : choice \in [1..Len(PatchPaths) -> Variants]}

\* Every entry's parent directory is a directory entry of the list: the list
\* is what a directory can hold.
IsExpanded(list) ==
  \A i \in 1..Len(list) :
    dirname(list[i].relativePath) # <<>> =>
      \E j \in 1..Len(list) :
        /\ list[j].relativePath = dirname(list[i].relativePath)
        /\ isDirectory(list[j])

\* The directory that holds a list: a file is a link to the input file where
\* the platform can symlink, a copy of it otherwise.
Content(entry, linked) ==
  IF isDirectory(entry) THEN <<>>
  ELSE IF linked THEN <<"link">>
  ELSE <<entry.size, entry.mtime>>

DiskOf(list, linked) ==
  {[path |-> list[i].relativePath,
    kind |-> IF isDirectory(list[i]) THEN "directory" ELSE "file",
    content |-> Content(list[i], linked)] : i \in 1..Len(list)}

\* fs: what a directory holds at a path, and the calls of the default delegate.
KindOnDisk(D, outputPath) ==
  IF \E f \in D : f.path = outputPath
  THEN (CHOOSE f \in D : f.path = outputPath).kind
  ELSE "nothing"

ParentError(D, outputPath) ==
  IF dirname(outputPath) = <<>> THEN "none"
  ELSE IF KindOnDisk(D, dirname(outputPath)) = "nothing" THEN "ENOENT"
  ELSE IF KindOnDisk(D, dirname(outputPath)) = "file" THEN "ENOTDIR"
  ELSE "none"

Failed(error, D) == [error |-> error, disk |-> D]
Succeeded(D) == [error |-> "none", disk |-> D]

fsMkdirSync(D, outputPath) ==
  IF ParentError(D, outputPath) # "none" THEN Failed(ParentError(D, outputPath), D)
  ELSE IF KindOnDisk(D, outputPath) # "nothing" THEN Failed("EEXIST", D)
  ELSE Succeeded(D \cup {[path |-> outputPath, kind |-> "directory", content |-> <<>>]})

fsRmdirSync(D, outputPath) ==
  IF KindOnDisk(D, outputPath) = "nothing" THEN Failed("ENOENT", D)
  ELSE IF KindOnDisk(D, outputPath) = "file" THEN Failed("ENOTDIR", D)
  ELSE IF \E f \in D : dirname(f.path) = outputPath THEN Failed("ENOTEMPTY", D)
  ELSE Succeeded({f \in D : f.path # outputPath})

fsUnlinkSync(D, outputPath) ==
  IF KindOnDisk(D, outputPath) = "nothing" THEN Failed("ENOENT", D)
  ELSE IF KindOnDisk(D, outputPath) = "directory" THEN Failed("EISDIR", D)
  ELSE Succeeded({f \in D : f.path # outputPath})

\* symlinkOrCopy.sync(inputPath, outputPath); the input file is the entry's.
symlinkOrCopySync(D, outputPath, entry, linked) ==
  IF ParentError(D, outputPath) # "none" THEN Failed(ParentError(D, outputPath), D)
  ELSE IF KindOnDisk(D, outputPath) # "nothing" THEN Failed("EEXIST", D)
  ELSE Succeeded(D \cup {[path |-> outputPath, kind |-> "file",
                          content |-> Content(entry, linked)]})

\* DEFAULT_DELEGATE.change
delegateChange(D, operation, linked) ==
  IF linked THEN Succeeded(D)
  ELSE With(fsUnlinkSync(D, operation.path), LAMBDA unlinked :
         IF unlinked.error # "none" THEN unlinked
         ELSE symlinkOrCopySync(unlinked.disk, operation.path, operation.entry, linked))

\* applyOperation with DEFAULT_DELEGATE
applyOperation(D, operation, linked) ==
  CASE operation.op = "change" -> delegateChange(D, operation, linked)
    [] operation.op = "create" -> symlinkOrCopySync(D, operation.path, operation.entry, linked)
    [] operation.op = "mkdir" -> fsMkdirSync(D, operation.path)
    [] operation.op = "rmdir" -> fsRmdirSync(D, operation.path)
    [] operation.op = "unlink" -> fsUnlinkSync(D, operation.path)

\* Two ManualTrees were made; the output directory holds the first one's
\* entries where they are what a directory can hold.
PatchInit ==
  /\ Constructed
  /\ NoSource
  /\ NoFilter
  /\ NoMerge
  /\ NoNormalize
  /\ lastCall = Unobserved
  /\ oursTree \in EntryLists
  /\ theirsTree \in EntryLists
  /\ canSymlink \in BOOLEAN
  /\ disk = (IF IsExpanded(oursTree) THEN DiskOf(oursTree, canSymlink) ELSE {})
  /\ patch = <<>>
  /\ applied = -1
  /\ failure = "none"

\* ManualTree.prototype.calculatePatch
CalculatePatch ==
  /\ applied = -1
  /\ patch' = calculatePatch(oursTree, theirsTree)
  /\ applied' = 0
  /\ UNCHANGED <<treeVars, sourceVars, filterVars, mergeVars, normalizeVars, oursTree, theirsTree, failure, disk, canSymlink>>

\* One round of the for loop of ManualTree.applyPatch.
ApplyOperation ==
  /\ applied >= 0 /\ applied < Len(patch)
  /\ failure = "none"
  /\ IsExpanded(oursTree)
  /\ \E r \in {applyOperation(disk, patch[applied + 1], canSymlink)} :
       /\ failure' = r.error
       /\ disk' = r.disk
       /\ applied' = IF r.error = "none" THEN applied + 1 ELSE applied
  /\ UNCHANGED <<treeVars, sourceVars, filterVars, mergeVars, normalizeVars, oursTree, theirsTree, patch, canSymlink>>

PatchNext == CalculatePatch \/ ApplyOperation

SpecPatch == PatchInit /\ [][PatchNext]_vars

(***************************************************************************)
(* SourceTree: a tree that scans a directory on disk, one directory at a   *)
(* time, and caches what it finds until the next reread.                   *)
(***************************************************************************)
MaxScans == 2
MaxChildren == 1

\* The paths the scanned directory may hold, in ascending order, and the
\* directories a client may ask for.
SourcePaths == <<(<<"a">>), (<<"a", ".", "b">>), (<<"a", "/", "b">>)>>
SourceDirectories == {<<>>, <<"a">>, <<"a", "/", "b">>}

\* What the directory can hold: a.b is a file or absent, a is a file, a
\* directory or absent, a/b is a file or a directory of the directory a.
OnDisk(relativePath, kind) == [path |-> relativePath, kind |-> kind, content |-> <<>>]

SourceDisks ==
  {top \cup below :
     top \in {{}, {OnDisk(SourcePaths[2], "file")}},
     below \in {{}, {OnDisk(SourcePaths[1], "file")}, {OnDisk(SourcePaths[1], "directory")},
                {OnDisk(SourcePaths[1], "directory"), OnDisk(SourcePaths[3], "file")},
                {OnDisk(SourcePaths[1], "directory"), OnDisk(SourcePaths[3], "directory")}}}

\* new Entry(relativePath, stats.size, stats.mtime, stats.mode)
StatEntry(f) ==
  IF f.kind = "directory" THEN Entry(f.path, undefined, 0, DIRECTORY_MODE, <<>>)
  ELSE Entry(f.path, 1, 0, FILE_MODE, <<>>)

\* The SourceTree as its methods see it.
Source == [entries |-> sourceEntries, scanned |-> scannedDirectories,
           previous |-> sourcePrevious, scans |-> scans, disk |-> sourceDisk,
           children |-> childPrevious]

Thrown(error, S) == [error |-> error, returned |-> <<>>, scanned |-> FALSE, world |-> S]

\* fs.readdirSync fails with ENOTDIR where the path, or a directory above it,
\* is a file.
ThroughFile(D, normalizedPath) ==
  \E f \in D : /\ f.kind = "file"
               /\ (f.path = normalizedPath \/ Beneath(normalizedPath, f.path))

\* SourceTree.prototype._scanEntriesForDirectory: the entries of what the
\* directory holds, by name; none for a directory that is not there.
scanEntriesForDirectory(D, normalizedPath) ==
  LET names == SelectSeq(SourcePaths, LAMBDA relativePath :
                 /\ dirname(relativePath) = normalizedPath
                 /\ KindOnDisk(D, relativePath) # "nothing")
  IN IF normalizedPath # <<>> /\ KindOnDisk(D, normalizedPath) = "nothing" THEN <<>>
     ELSE [i \in 1..Len(names) |-> StatEntry(CHOOSE f \in D : f.path = names[i])]

\* shared.mergeEntries(first, second, true)
mergeEntriesIgnoringDuplicates(first, second) == sortEntries(first \o second)

\* _ensureDirectoryScanned that does not remember what it scanned.
ensureDirectoryScannedForgetting(S, normalizedPath) ==
  IF normalizedPath \in S.scanned THEN [error |-> "none", returned |-> <<>>, scanned |-> FALSE, world |-> S]
  ELSE IF ThroughFile(S.disk, normalizedPath) THEN Thrown("ENOTDIR", S)
  ELSE With(scanEntriesForDirectory(S.disk, normalizedPath), LAMBDA found :
         [error |-> "none", returned |-> found, scanned |-> TRUE,
          world |-> [S EXCEPT !.entries = mergeEntriesIgnoringDuplicates(@, found),
                              !.scans[normalizedPath] = IF @ < MaxScans THEN @ + 1 ELSE @]])

\* SourceTree.prototype._ensureDirectoryScanned; `scanned` tells the entries
\* returned from the undefined returned for a directory scanned before.
ensureDirectoryScanned(S, normalizedPath) ==
  IF normalizedPath \in S.scanned THEN [error |-> "none", returned |-> <<>>, scanned |-> FALSE, world |-> S]
  ELSE IF ThroughFile(S.disk, normalizedPath) THEN Thrown("ENOTDIR", S)
  ELSE With(scanEntriesForDirectory(S.disk, normalizedPath), LAMBDA found :
         [error |-> "none", returned |-> found, scanned |-> TRUE,
          world |-> [S EXCEPT !.entries = mergeEntriesIgnoringDuplicates(@, found),
                              !.scanned = @ \cup {normalizedPath},
                              !.scans[normalizedPath] = IF @ < MaxScans THEN @ + 1 ELSE @]])

RECURSIVE SkipToSubtree(_, _, _)
\* The first while loop of _ensureSubtreeScanned, from the entry at index on:
\* the index of the first entry beneath the directory; -1 when it runs off the
\* end of the array, where the second loop then reads a property of undefined.
SkipToSubtree(array, prefix, index) ==
  IF index >= Len(array) THEN -1
  ELSE IF startsWith(At(array, index).relativePath, prefix) THEN index
  ELSE SkipToSubtree(array, prefix, index + 1)

RECURSIVE TakeSubtree(_, _, _)
\* The second while loop: the entries directly in the directory.
TakeSubtree(array, prefix, index) ==
  IF index >= Len(array) THEN <<>>
  ELSE IF ~startsWith(At(array, index).relativePath, prefix) THEN <<>>
  ELSE With(TakeSubtree(array, prefix, index + 1), LAMBDA rest :
         IF HasSeparator(substring(At(array, index).relativePath, Len(prefix))) THEN rest
         ELSE <<At(array, index)>> \o rest)

\* The entries _ensureSubtreeScanned goes on with: those cached for a
\* directory scanned before, those just scanned otherwise.
subtreeEntries(S, normalizedPath) ==
  IF normalizedPath \in S.scanned
  THEN With(searchByRelativePath(S.entries, normalizedPath, FALSE), LAMBDA index :
         IF index = -1 THEN [error |-> "none", returned |-> <<>>, scanned |-> FALSE, world |-> S]
         ELSE With(SkipToSubtree(S.entries, ensureSeparator(normalizedPath), index + 1), LAMBDA first :
                IF first = -1 THEN Thrown("TypeError", S)
                ELSE [error |-> "none", scanned |-> FALSE, world |-> S,
                      returned |-> TakeSubtree(S.entries, ensureSeparator(normalizedPath), first)]))
  ELSE ensureDirectoryScanned(S, normalizedPath)

RECURSIVE ensureSubtreeScanned(_, _)
RECURSIVE subtreeLoop(_, _, _)
\* The for loop of _ensureSubtreeScanned over the entries from i on.
subtreeLoop(S, list, i) ==
  IF i > Len(list) THEN [error |-> "none", returned |-> <<>>, scanned |-> FALSE, world |-> S]
  ELSE IF ~isDirectory(list[i]) THEN subtreeLoop(S, list, i + 1)
  ELSE With(ensureSubtreeScanned(S, list[i].relativePath), LAMBDA r :
         IF r.error # "none" THEN r ELSE subtreeLoop(r.world, list, i + 1))

\* SourceTree.prototype._ensureSubtreeScanned
ensureSubtreeScanned(S, normalizedPath) ==
  With(subtreeEntries(S, normalizedPath), LAMBDA listed :
    IF listed.error # "none" THEN listed ELSE subtreeLoop(listed.world, listed.returned, 1))

\* SourceTree.prototype._getEntriesForDirectory: the entries just scanned, or
\* those cached for a directory scanned before, by name.
sourceGetEntriesForDirectory(S, normalizedPath) ==
  With(ensureDirectoryScanned(S, normalizedPath), LAMBDA r :
    IF r.error # "none" THEN r
    ELSE IF r.scanned
    THEN [r EXCEPT !.returned =
            [i \in 1..Len(r.returned) |->
               clone(r.returned[i],
                     substring(r.returned[i].relativePath, Len(ensureSeparator(normalizedPath))))]]
    ELSE [r EXCEPT !.returned = getEntriesFromArrayForDirectory(S.entries, normalizedPath)])

RECURSIVE sourceFilterEntries(_, _)
RECURSIVE sourceFilterEach(_, _, _)
\* The for loop of the closure filterEntries of Projection's entries getter,
\* for a projection of the SourceTree without include or exclude matchers.
sourceFilterEach(S, normalizedPath, listed) ==
  IF listed = <<>> THEN [error |-> "none", returned |-> <<>>, scanned |-> FALSE, world |-> S]
  ELSE With(clone(Head(listed), joinPaths(normalizedPath, Head(listed).relativePath)),
            LAMBDA entry :
       With(IF isDirectory(entry) THEN sourceFilterEntries(S, entry.relativePath)
            ELSE [error |-> "none", returned |-> <<>>, scanned |-> FALSE, world |-> S],
            LAMBDA below :
         IF below.error # "none" THEN below
         ELSE With(sourceFilterEach(below.world, normalizedPath, Tail(listed)), LAMBDA rest :
                IF rest.error # "none" THEN rest
                ELSE [rest EXCEPT !.returned = <<entry>> \o below.returned \o @])))

\* The closure filterEntries over the SourceTree.
sourceFilterEntries(S, normalizedPath) ==
  With(sourceGetEntriesForDirectory(S, normalizedPath), LAMBDA listed :
    IF listed.error # "none" THEN listed
    ELSE sourceFilterEach(listed.world, normalizedPath, listed.returned))

\* The entries getter of a Projection of the SourceTree with the empty cwd.
sourceProjectionEntries(S) ==
  With(sourceFilterEntries(S, <<>>), LAMBDA filtered :
    IF filtered.error # "none" THEN filtered
    ELSE [filtered EXCEPT !.returned = sortEntries(@)])

\* The entries getter of the SourceTree.
sourceEntriesGetter(S) ==
  With(ensureSubtreeScanned(S, <<>>), LAMBDA r :
    IF r.error # "none" THEN r ELSE [r EXCEPT !.returned = r.world.entries])

\* SourceTree.prototype.changes
sourceChanges(S) ==
  With(sourceEntriesGetter(S), LAMBDA theirs :
    IF theirs.error # "none" THEN theirs
    ELSE [theirs EXCEPT !.returned = calculatePatch(S.previous, theirs.returned)])

\* A Projection of the SourceTree that has taken no snapshot, and one that has.
NotReread == [has |-> FALSE, entries |-> <<>>]
Copied(array) == [has |-> TRUE, entries |-> array]

RECURSIVE sourceRereadChildren(_, _)
\* FacadeTree.prototype._reread of the SourceTree, from the i-th child on:
\* Projection.prototype._reread of each child, which reads the child's entries
\* through the SourceTree.
sourceRereadChildren(S, i) ==
  IF i > Len(S.children) THEN [error |-> "none", returned |-> <<>>, scanned |-> FALSE, world |-> S]
  ELSE With(sourceProjectionEntries(S), LAMBDA exposed :
         IF exposed.error # "none" THEN exposed
         ELSE sourceRereadChildren(
                [exposed.world EXCEPT !.children[i] = Copied(exposed.returned)], i + 1))

\* The last statements of SourceTree.prototype._reread.
invalidate(S) ==
  [S EXCEPT !.entries = <<>>,
            !.scanned = {},
            !.scans = [d \in SourceDirectories |-> 0]]

\* _reread that invalidates the entries before the children take their copy.
sourceRereadInvalidatingFirst(S) ==
  With(sourceRereadChildren(invalidate([S EXCEPT !.previous = S.entries]), 1), LAMBDA r :
    IF r.error # "none" THEN r ELSE [r EXCEPT !.world = invalidate(@)])

\* SourceTree.prototype._reread, and the error it ends with.
sourceRereadSync(S) ==
  With(sourceRereadChildren([S EXCEPT !.previous = S.entries], 1), LAMBDA r :
    IF r.error # "none" THEN r ELSE [r EXCEPT !.world = invalidate(@)])

\* The SourceTree as _reread leaves it.
sourceReread(S) == sourceRereadSync(S).world

\* A SourceTree was made for a directory.
SourceInit ==
  /\ Constructed
  /\ NoPatch
  /\ NoFilter
  /\ NoMerge
  /\ NoNormalize
  /\ lastCall = Unobserved
  /\ sourceDisk \in SourceDisks
  /\ sourceEntries = <<>>
  /\ scannedDirectories = {}
  /\ sourcePrevious = <<>>
  /\ scans = [d \in SourceDirectories |-> 0]
  /\ childPrevious = <<>>
  /\ quietRereads = 0

\* The SourceTree is as a method left it, quiet rereads after the last change
\* of the directory.
BecomesAfter(S, quiet) ==
  /\ sourceEntries' = S.entries
  /\ scannedDirectories' = S.scanned
  /\ sourcePrevious' = S.previous
  /\ scans' = S.scans
  /\ childPrevious' = S.children
  /\ quietRereads' = quiet
  /\ UNCHANGED <<treeVars, patchVars, filterVars, mergeVars, normalizeVars, sourceDisk>>

Becomes(S) == BecomesAfter(S, quietRereads)

\* _getEntriesForDirectory or _findByRelativePath has the directory scanned.
EnsureDirectoryScanned(normalizedPath) ==
  \E r \in {ensureDirectoryScanned(Source, normalizedPath)} : Becomes(r.world)

\* The entries getter, for the root, or a client has a subtree scanned.
EnsureSubtreeScanned(normalizedPath) ==
  \E r \in {ensureSubtreeScanned(Source, normalizedPath)} : Becomes(r.world)

\* tree.filtered(): a Projection of the SourceTree with the empty cwd.
SourceFiltered ==
  /\ Len(childPrevious) < MaxChildren
  /\ Becomes([Source EXCEPT !.children = Append(@, NotReread)])

\* reread(); one that throws is no barrier.
SourceReread ==
  \E r \in {sourceRereadSync(Source)} :
    BecomesAfter(r.world, IF r.error # "none" THEN 0
                          ELSE IF quietRereads < 2 THEN quietRereads + 1 ELSE 2)

\* Something else writes to the directory.
DiskChange ==
  /\ sourceDisk' \in SourceDisks \ {sourceDisk}
  /\ quietRereads' = 0
  /\ UNCHANGED <<treeVars, patchVars, filterVars, mergeVars, normalizeVars, sourceEntries, scannedDirectories, sourcePrevious, scans, childPrevious>>

SourceNext ==
  \/ \E d \in SourceDirectories : EnsureDirectoryScanned(d) \/ EnsureSubtreeScanned(d)
  \/ SourceFiltered
  \/ SourceReread
  \/ DiskChange

SpecSource == SourceInit /\ [][SourceNext]_vars

(***************************************************************************)
(* Rereads: the _reread calls a reread makes, and two trees whose clients  *)
(* make projections of them, link the root of tree 2 to tree 1 and reread. *)
(***************************************************************************)
Node(kind, id) == [kind |-> kind, id |-> id]
TreeNode(w) == Node("tree", w)
ProjectionNode(i) == Node("projection", i)

\* The _children of a tree: the projections made of it (Projection adds itself
\* to its parent's); of a projection: the Delegators that delegate to it.
childrenOf(X, node) ==
  IF node.kind = "tree"
  THEN {ProjectionNode(i) : i \in {j \in 1..Len(X.proj) :
                                     X.proj[j].attached /\ X.proj[j].parent = node.id}}
  ELSE {TreeNode(d) : d \in {t \in DOMAIN X.delegate : X.delegate[t] = node.id}}

\* A _reread that passes nothing on to the children.
facadeRereadAlone(X, node) == <<>>

RECURSIVE facadeReread(_, _)
RECURSIVE rereadEach(_, _)
\* for (const child of this._children) child._reread(): the calls made, in
\* order, each followed by the calls it makes in turn.
rereadEach(X, children) ==
  IF children = {} THEN <<>>
  ELSE With(CHOOSE c \in children : \A other \in children : c.id <= other.id, LAMBDA child :
         <<child>> \o facadeReread(X, child) \o rereadEach(X, children \ {child}))

\* FacadeTree.prototype._reread, which the _reread of Projection, of
\* WritableTree and of SourceTree call, and which is Delegator's own.
facadeReread(X, node) == rereadEach(X, childrenOf(X, node))

\* How many times the call is made.
Count(calls, node) == Cardinality({i \in DOMAIN calls : calls[i] = node})

NoFiles == [has |-> FALSE, list |-> <<>>]

RereadNext ==
  \/ \E w \in Trees : state[w] = "stopped" /\ Start(w)
  \/ MkdirSync(1, <<"a">>)
  \/ WriteFileSync(1, <<"a", "/", "b">>, <<"x">>)
  \/ \E w \in Trees : Len(proj) < MaxProjections /\ Filtered(w, NoFiles)
  \/ \E targetPath \in {<<>>, <<"a">>} :
       /\ Len(proj) < MaxProjections
       /\ SymlinkToFacadeSync(2, 1, targetPath, <<>>)
  \/ UndoRootSymlinkSync(2)
  \/ \E w \in Trees : Reread(w)

SpecReread == CallsInit /\ [][RereadNext]_vars

(***************************************************************************)
(* Two trees whose clients link either to either, at the root or at a      *)
(* path.  A lookup that follows the links of a tree that is reachable from *)
(* itself does not return, so the clients' calls are followed up to the    *)
(* first such state.                                                       *)
(***************************************************************************)
\* The trees whose entries tree w reads: the parent of its delegate, and the
\* parents of the projections its directory links lead to.
ReadsFrom(X, w) ==
  {X.proj[i].parent : i \in {j \in 1..Len(X.proj) :
      \/ X.delegate[w] = j
      \/ \E k \in DOMAIN X.entries[w] :
           /\ X.entries[w][k].symlink.kind = "dir"
           /\ X.entries[w][k].symlink.proj = j}}

RECURSIVE ReachableFrom(_, _)
\* The trees read by the trees in S, by those they read, and so on.
ReachableFrom(X, S) ==
  With(UNION {ReadsFrom(X, w) : w \in S}, LAMBDA read :
    IF read \subseteq S THEN S ELSE ReachableFrom(X, S \cup read))

\* No tree is reachable from itself.
Acyclic(X) == \A w \in DOMAIN X.delegate : w \notin ReachableFrom(X, ReadsFrom(X, w))

CyclesNext ==
  \/ \E w \in Trees : Acyclic(World) /\ state[w] = "stopped" /\ Start(w)
  \/ \E w \in Trees : Acyclic(World) /\ MkdirSync(w, <<"a">>)
  \/ \E w \in Trees : Acyclic(World) /\ Len(proj) < MaxProjections /\ Filtered(w, NoFiles)
  \/ \E w \in Trees, targetFacade \in Trees, localPath \in LocalPaths :
       /\ Acyclic(World)
       /\ Len(proj) < MaxProjections
       /\ SymlinkToFacadeSync(w, targetFacade, <<>>, localPath)
  \/ \E w \in Trees : Acyclic(World) /\ UndoRootSymlinkSync(w)

SpecCycles == CallsInit /\ [][CyclesNext]_vars

(***************************************************************************)
(* Projections with include and exclude matchers: a Projection of a tree   *)
(* that holds its entries in _entries.  A matcher is a function or a       *)
(* RegExp, taken as the set of paths it matches, and an array of matchers  *)
(* as the union of those sets; with such matchers mayContain holds of      *)
(* every directory.                                                        *)
(***************************************************************************)
MaxMatched == 2

\* The paths of the parent tree, in ascending order.
FilterPaths ==
  <<(<<"a">>), (<<"a", "/", "b">>), (<<"a", "/", "b", "/", "c">>), (<<"a", "/", "d">>)>>

\* What matchers are applied to: paths relative to the cwd.
MatchedPaths == {FilterPaths[i] : i \in 1..Len(FilterPaths)} \cup {<<"b">>, <<"b", "/", "c">>, <<"d">>}
Matchers == {M \in SUBSET MatchedPaths : Cardinality(M) <= MaxMatched}
Cwds == {<<>>, <<"a">>}

\* The parent trees: each path is absent, a file or a directory, and what is
\* below a path is there only when the path is a directory.
Shapes == {shape \in [1..Len(FilterPaths) -> {"absent", "file", "directory"}] :
             \A i \in 1..Len(FilterPaths) :
               (shape[i] # "absent" /\ dirname(FilterPaths[i]) # <<>>) =>
                 \E j \in 1..Len(FilterPaths) :
                   FilterPaths[j] = dirname(FilterPaths[i]) /\ shape[j] = "directory"}

ShapeEntries(shape) ==
  LET present == SelectSeq([i \in 1..Len(FilterPaths) |-> i], LAMBDA i : shape[i] # "absent")
  IN [k \in 1..Len(present) |->
        Entry(FilterPaths[present[k]], 1, 0,
              IF shape[present[k]] = "directory" THEN DIRECTORY_MODE ELSE FILE_MODE, <<>>)]

RECURSIVE ancestorMatches(_, _)
\* The while loop of shouldExcludeDirectory, from currentDir up.
ancestorMatches(currentDir, exclude) ==
  IF currentDir = <<>> THEN FALSE
  ELSE IF currentDir \in exclude THEN TRUE
  ELSE ancestorMatches(dirname(currentDir), exclude)

\* shouldExcludeDirectory
shouldExcludeDirectory(normalizedPath, exclude) ==
  IF exclude # {}
  THEN ancestorMatches(dirname(normalizedPath), exclude) \/ normalizedPath \in exclude
  ELSE FALSE

\* filterMatches with files null that asks the include matchers first.
filterMatchesIncludeFirst(normalizedPath, cwd, hasInclude, include, exclude) ==
  IF ~startsWith(normalizedPath, ensureSeparator(cwd)) \/ cwd = normalizedPath THEN FALSE
  ELSE LET relative == IF cwd # <<>>
                       THEN substring(normalizedPath, Len(ensureSeparator(cwd)))
                       ELSE normalizedPath
       IN IF hasInclude THEN relative \in include
          ELSE ~shouldExcludeDirectory(relative, exclude)

\* filterMatches with files null.
filterMatchesMatchers(normalizedPath, cwd, hasInclude, include, exclude) ==
  IF ~startsWith(normalizedPath, ensureSeparator(cwd)) \/ cwd = normalizedPath THEN FALSE
  ELSE LET relative == IF cwd # <<>>
                       THEN substring(normalizedPath, Len(ensureSeparator(cwd)))
                       ELSE normalizedPath
       IN IF shouldExcludeDirectory(relative, exclude) THEN FALSE
          ELSE IF hasInclude /\ relative \notin include THEN FALSE
          ELSE TRUE

\* calculateDirectoryDepth
calculateDirectoryDepth(normalizedPath) ==
  Cardinality({i \in 1..Len(normalizedPath) : normalizedPath[i] = sep})

RECURSIVE popDirectories(_, _, _)
\* while (directoryStack.length && directoryDepth >= newDirectoryDepth)
popDirectories(directoryStack, directoryDepth, newDirectoryDepth) ==
  IF directoryStack # <<>> /\ directoryDepth >= newDirectoryDepth
  THEN popDirectories(SubSeq(directoryStack, 1, Len(directoryStack) - 1),
                      directoryDepth - 1, newDirectoryDepth)
  ELSE [directoryStack |-> directoryStack, directoryDepth |-> directoryDepth]

\* The directory stack that emits every directory it holds.
emitAncestorsAll(directoryStack, entry) == directoryStack

\* for (j ...) if (startsWith(entry.relativePath, ensureSeparator(directory.relativePath)))
emitAncestors(directoryStack, entry) ==
  SelectSeq(directoryStack, LAMBDA directory :
    startsWith(entry.relativePath, ensureSeparator(directory.relativePath)))

\* What one entry does to directoryStack, directoryDepth and filteredEntries.
filterEntry(F, entry, st) ==
  IF filterMatchesMatchers(entry.relativePath, F.cwd, F.hasInclude, F.include, F.exclude)
  THEN [directoryStack |-> <<>>, directoryDepth |-> 0,
        filteredEntries |-> st.filteredEntries \o emitAncestors(st.directoryStack, entry)
                            \o <<entry>>]
  ELSE IF isDirectory(entry)
  THEN With(popDirectories(st.directoryStack, st.directoryDepth,
                           calculateDirectoryDepth(entry.relativePath)), LAMBDA popped :
         [directoryStack |-> Append(popped.directoryStack, entry),
          directoryDepth |-> calculateDirectoryDepth(entry.relativePath),
          filteredEntries |-> st.filteredEntries])
  ELSE st

RECURSIVE matcherFilterEntries(_, _, _, _)
RECURSIVE matcherFilterEach(_, _, _, _, _)
\* The for loop of the closure filterEntries of Projection's entries getter.
matcherFilterEach(array, F, normalizedPath, listed, st) ==
  IF listed = <<>> THEN st
  ELSE With(clone(Head(listed), joinPaths(normalizedPath, Head(listed).relativePath)),
            LAMBDA entry :
         IF isDirectory(entry)
            /\ shouldExcludeDirectory(
                 substring(entry.relativePath, Len(ensureSeparator(F.cwd))), F.exclude)
         THEN matcherFilterEach(array, F, normalizedPath, Tail(listed), st)
         ELSE With(filterEntry(F, entry, st), LAMBDA st1 :
              With(IF isDirectory(entry)
                   THEN matcherFilterEntries(array, F, entry.relativePath, st1) ELSE st1,
                   LAMBDA st2 :
                matcherFilterEach(array, F, normalizedPath, Tail(listed), st2))))

\* The closure filterEntries of Projection's entries getter.
matcherFilterEntries(array, F, normalizedPath, st) ==
  matcherFilterEach(array, F, normalizedPath,
                    getEntriesFromArrayForDirectory(array, normalizedPath), st)

\* The entries getter of a Projection with the filters F of a tree whose
\* _entries are array.
filteredEntriesOf(array, F) ==
  With(matcherFilterEntries(array, F, F.cwd,
         [directoryStack |-> <<>>, directoryDepth |-> 0, filteredEntries |-> <<>>]),
       LAMBDA st :
    sortEntries([i \in 1..Len(st.filteredEntries) |->
                   clone(st.filteredEntries[i],
                         substring(st.filteredEntries[i].relativePath,
                                   Len(ensureSeparator(F.cwd))))]))

\* tree.filtered({}) of a tree that holds some of the paths.
FilterInit ==
  /\ Constructed
  /\ NoPatch
  /\ NoSource
  /\ NoMerge
  /\ NoNormalize
  /\ lastCall = Unobserved
  /\ \E shape \in Shapes : parentTree = ShapeEntries(shape)
  /\ filters = [cwd |-> <<>>, hasInclude |-> FALSE, include |-> {}, exclude |-> {}]

FilterBecomes(F) ==
  /\ filters' = F
  /\ UNCHANGED <<treeVars, patchVars, sourceVars, mergeVars, normalizeVars, parentTree>>

\* projection.cwd = value
SetCwd(value) == FilterBecomes([filters EXCEPT !.cwd = value])

\* projection.include = value: an array of matchers that together match the
\* paths in matched, or the empty array.
SetInclude(hasMatchers, matched) ==
  FilterBecomes([filters EXCEPT !.hasInclude = hasMatchers, !.include = matched])

\* projection.exclude = value
SetExclude(matched) == FilterBecomes([filters EXCEPT !.exclude = matched])

FilterNext ==
  \/ \E value \in Cwds : SetCwd(value)
  \/ SetInclude(FALSE, {})
  \/ \E matched \in Matchers : SetInclude(TRUE, matched)
  \/ \E matched \in Matchers : SetExclude(matched)

SpecFilter == FilterInit /\ [][FilterNext]_vars

(***************************************************************************)
(* FSMergeTree: the overlay of input trees.  An input is a tree that holds *)
(* its entries in _entries; overwrite is the option as _mergeRelativePath  *)
(* reads it, "null" where no options or no overwrite option was passed.    *)
(***************************************************************************)
MaxInputs == 3

\* String.prototype.toLowerCase, on the characters paths are made of.
toLowerCase(name) ==
  [k \in 1..Len(name) |-> CASE name[k] = "A" -> "a" [] name[k] = "B" -> "b" [] OTHER -> name[k]]

\* tree.readdirSync(baseDir).sort(), for a directory the tree holds.
inputReaddirSync(array, baseDir) ==
  With(sortEntries(getEntriesFromArrayForDirectory(array,
         IF baseDir = <<>> THEN <<>> ELSE SubSeq(baseDir, 1, Len(baseDir) - 1))),
       LAMBDA listed : [k \in 1..Len(listed) |-> listed[k].relativePath])

\* Entry.fromStat(filePath, tree.statSync(filePath)) with entry.tree = tree,
\* for a path the tree holds.
inputEntry(array, filePath, tree) ==
  With(At(array, searchByRelativePath(array, filePath, FALSE)), LAMBDA found :
    [relativePath |-> filePath, size |-> found.size, mtime |-> found.mtime,
     mode |-> found.mode, checksum |-> undefined, symlink |-> NoLink,
     tree |-> tree, linkDir |-> FALSE])

RECURSIVE mergeVisits(_, _, _, _, _)
\* for (i ...) for (j < names[i].length ...): the <<i, fileName>> in the order
\* the loops of _mergeRelativePath meet them, from input i on.
mergeVisits(inputs, baseDir, isBaseCase, possibleIndices, i) ==
  IF i > Len(inputs) THEN <<>>
  ELSE With(IF isBaseCase \/ i \in possibleIndices
            THEN inputReaddirSync(inputs[i], baseDir) ELSE <<>>, LAMBDA names :
         [j \in 1..Len(names) |-> [index |-> i, fileName |-> names[j]]]
           \o mergeVisits(inputs, baseDir, isBaseCase, possibleIndices, i + 1))

\* Guard against conflicting capitalizations: a name differs from the first
\* name met with the same lower case.
conflictingCapitalizations(visits) ==
  \E q \in 1..Len(visits) :
    LET first == CHOOSE p \in 1..q :
                   /\ toLowerCase(visits[p].fileName) = toLowerCase(visits[q].fileName)
                   /\ \A r \in 1..(p - 1) :
                        toLowerCase(visits[r].fileName) # toLowerCase(visits[q].fileName)
    IN visits[first].fileName # visits[q].fileName

\* A fileInfo that keeps the entry of the first input.
keepEntry(infoHash, entry, i) == [infoHash EXCEPT !.indices = Append(@, i)]

\* fileInfo[fileName].entry = entry; fileInfo[fileName].indices.push(i)
replaceEntry(infoHash, entry, i) ==
  [infoHash EXCEPT !.entry = entry, !.indices = Append(@, i)]

RECURSIVE accumulateFileInfo(_, _, _, _, _, _)
\* The loops that build fileInfo and guard against conflicting file types and
\* overwriting, from visit k on.
accumulateFileInfo(inputs, baseDir, ow, visits, k, fileInfo) ==
  IF k > Len(visits) THEN [error |-> "none", fileInfo |-> fileInfo]
  ELSE LET i == visits[k].index
           fileName == visits[k].fileName
           entry == inputEntry(inputs[i], baseDir \o fileName, i)
       IN IF fileName \notin DOMAIN fileInfo
          THEN accumulateFileInfo(inputs, baseDir, ow, visits, k + 1,
                 fileInfo @@ (fileName :> [entry |-> entry, isDirectory |-> isDirectory(entry),
                                           indices |-> <<i>>]))
          ELSE IF fileInfo[fileName].isDirectory # isDirectory(entry)
          THEN [error |-> "conflicting file types", fileInfo |-> fileInfo]
          ELSE IF ~isDirectory(entry) /\ ow # "true"
          THEN [error |-> "overwrite refused", fileInfo |-> fileInfo]
          ELSE accumulateFileInfo(inputs, baseDir, ow, visits, k + 1,
                 [fileInfo EXCEPT ![fileName] = replaceEntry(@, entry, i)])

RECURSIVE sortFileInfos(_)
\* result.sort(function (a, b) { ... }) by entry.relativePath.
sortFileInfos(result) ==
  IF Len(result) <= 1 THEN result
  ELSE With(sortFileInfos(SubSeq(result, 1, Len(result) - 1)), LAMBDA sorted :
         LET x == result[Len(result)]
             before == Cardinality({k \in 1..Len(sorted) :
                         ~StringLess(x.entry.relativePath, sorted[k].entry.relativePath)})
         IN SpliceIn(sorted, before, x))

\* if (infoHash.indices[infoHash.indices.length-1] === i): the input whose
\* turn it is to push a file.
pushesFile(infoHash, i) == infoHash.indices[Len(infoHash.indices)] = i

\* A merge that links no directory.
linksDirectoryNever(infoHash, can) == FALSE

\* infoHash.indices.length === 1 && canSymlink
linksDirectory(infoHash, can) == Len(infoHash.indices) = 1 /\ can

RECURSIVE mergeRelativePath(_, _, _, _, _, _)
RECURSIVE mergeLoop(_, _, _, _, _, _, _)
\* "Actually merge now": the loops that push to result, from visit k on.
mergeLoop(inputs, ow, can, baseDir, visits, k, fileInfo) ==
  IF k > Len(visits) THEN [error |-> "none", result |-> <<>>]
  ELSE LET i == visits[k].index
           fileName == visits[k].fileName
           infoHash == fileInfo[fileName]
       IN With(
            IF infoHash.isDirectory
            THEN IF linksDirectory(infoHash, can)
                 THEN [error |-> "none",
                       result |-> <<[infoHash EXCEPT !.entry.linkDir = TRUE]>>]
                 ELSE IF infoHash.indices[1] = i
                 THEN With(mergeRelativePath(inputs, ow, can, baseDir \o fileName \o <<sep>>,
                             FALSE, {infoHash.indices[n] : n \in 1..Len(infoHash.indices)}),
                           LAMBDA subEntries :
                        [error |-> subEntries.error,
                         result |-> <<infoHash>> \o subEntries.result])
                 ELSE [error |-> "none", result |-> <<>>]
            ELSE IF pushesFile(infoHash, i)
                 THEN [error |-> "none", result |-> <<infoHash>>]
                 ELSE [error |-> "none", result |-> <<>>],
            LAMBDA pushed :
              IF pushed.error # "none" THEN [error |-> pushed.error, result |-> <<>>]
              ELSE With(mergeLoop(inputs, ow, can, baseDir, visits, k + 1, fileInfo),
                        LAMBDA rest :
                     IF rest.error # "none" THEN rest
                     ELSE [error |-> "none", result |-> pushed.result \o rest.result]))

\* FSMergeTree.prototype._mergeRelativePath
mergeRelativePath(inputs, ow, can, baseDir, isBaseCase, possibleIndices) ==
  With(mergeVisits(inputs, baseDir, isBaseCase, possibleIndices, 1), LAMBDA visits :
    IF conflictingCapitalizations(visits)
    THEN [error |-> "conflicting capitalizations", result |-> <<>>]
    ELSE With(accumulateFileInfo(inputs, baseDir, ow, visits, 1, <<>>), LAMBDA guarded :
           IF guarded.error # "none" THEN [error |-> guarded.error, result |-> <<>>]
           ELSE With(mergeLoop(inputs, ow, can, baseDir, visits, 1, guarded.fileInfo),
                     LAMBDA merged :
                  IF merged.error # "none" \/ ~isBaseCase THEN merged
                  ELSE [error |-> "none", result |-> sortFileInfos(merged.result)])))

\* The paths of the trees that are merged, in ascending order, and what each
\* can be.
MergePaths == <<(<<"a">>), (<<"a", "/", "b">>), (<<"c">>), (<<"c", "/", "d">>), (<<"d">>)>>
MergeKinds == <<{"absent", "file", "directory"}, {"absent", "file"}, {"absent", "directory"},
                {"absent", "file"}, {"absent", "file"}>>

\* The trees over paths: what is below a path is there only when the path is
\* a directory.
ShapesOver(paths, kinds) ==
  {shape \in [1..Len(paths) -> {"absent", "file", "directory"}] :
     \A i \in 1..Len(paths) :
       /\ shape[i] \in kinds[i]
       /\ (shape[i] # "absent" /\ dirname(paths[i]) # <<>>) =>
            \E j \in 1..Len(paths) : paths[j] = dirname(paths[i]) /\ shape[j] = "directory"}

EntriesOver(paths, shape) ==
  LET present == SelectSeq([i \in 1..Len(paths) |-> i], LAMBDA i : shape[i] # "absent")
  IN [k \in 1..Len(present) |->
        Entry(paths[present[k]], 1, 0,
              IF shape[present[k]] = "directory" THEN DIRECTORY_MODE ELSE FILE_MODE, <<>>)]

\* The input trees of the merge: the directories 'a' and 'c' hold 'a/b' and
\* 'c/d' wherever they are there.
MergeInputs ==
  {EntriesOver(MergePaths, shape) :
     shape \in {s \in ShapesOver(MergePaths, MergeKinds) :
                  /\ s[1] = "directory" => s[2] = "file"
                  /\ s[3] = "directory" => s[4] = "file"}}

OverwriteOptions == {"null", "false", "true"}

\* new FSMergeTree({ inputs }) over two to MaxInputs trees.
MergeInit ==
  /\ Constructed
  /\ NoSource
  /\ NoFilter
  /\ NoNormalize
  /\ lastCall = Unobserved
  /\ oursTree = <<>>
  /\ theirsTree = <<>>
  /\ patch = <<>>
  /\ applied = -1
  /\ failure = "none"
  /\ disk = {}
  /\ canSymlink \in BOOLEAN
  /\ \E n \in 2..MaxInputs : inputTrees \in [1..n -> MergeInputs]
  /\ overwrite = "null"
  /\ currentTree = <<>>
  /\ mergeResult = [op |-> "none", error |-> "none", returned |-> <<>>]

\* mergeTrees._mergeRelativePath(overwriteOptions, ''): what it returns, as the
\* entries of the fileInfos, or the error it throws.
MergeRelativePath(ow) ==
  /\ overwrite' = ow
  /\ \E merged \in {mergeRelativePath(inputTrees, ow, canSymlink, <<>>, TRUE, {})} :
       mergeResult' = [op |-> "_mergeRelativePath", error |-> merged.error,
                       returned |-> [k \in 1..Len(merged.result) |-> merged.result[k].entry]]
  /\ UNCHANGED <<treeVars, patchVars, sourceVars, filterVars, normalizeVars, inputTrees, currentTree>>

MergeNext == \E ow \in OverwriteOptions : MergeRelativePath(ow)

SpecMerge == MergeInit /\ [][MergeNext]_vars

\* isLinkStateEqual
isLinkStateEqual(entryA, entryB, can) ==
  IF ~(isDirectory(entryA) /\ isDirectory(entryB)) THEN TRUE
  ELSE IF ~can THEN TRUE
  ELSE entryA.linkDir = entryB.linkDir

\* An equality that does not look at linkDir.
isEqualWithoutLinkState(entryA, entryB, can) == defaultIsEqual(entryA, entryB)

\* isEqual of the merge: ManualTree.defaultIsEqual && isLinkStateEqual.
isEqual(entryA, entryB, can) ==
  defaultIsEqual(entryA, entryB) /\ isLinkStateEqual(entryA, entryB, can)

RECURSIVE mergePatchLoop(_, _, _, _, _)
\* The loops of calculatePatch called with isEqual: <<removals, additions>> from
\* ours[i..] and theirs[j..].
mergePatchLoop(ours, theirs, i, j, can) ==
  IF i >= Len(ours) /\ j >= Len(theirs) THEN <<(<<>>), (<<>>)>>
  ELSE IF j >= Len(theirs)
       THEN With(mergePatchLoop(ours, theirs, i + 1, j, can), LAMBDA rest :
              <<(<<removeCommand(At(ours, i))>> \o rest[1]), rest[2]>>)
  ELSE IF i >= Len(ours)
       THEN With(mergePatchLoop(ours, theirs, i, j + 1, can), LAMBDA rest :
              <<rest[1], (<<addCommand(At(theirs, j))>> \o rest[2])>>)
  ELSE LET x == At(ours, i)
           y == At(theirs, j)
       IN IF StringLess(x.relativePath, y.relativePath)
          THEN With(mergePatchLoop(ours, theirs, i + 1, j, can), LAMBDA rest :
                 <<(<<removeCommand(x)>> \o rest[1]), rest[2]>>)
          ELSE IF StringLess(y.relativePath, x.relativePath)
          THEN With(mergePatchLoop(ours, theirs, i, j + 1, can), LAMBDA rest :
                 <<rest[1], (<<addCommand(y)>> \o rest[2])>>)
          ELSE With(mergePatchLoop(ours, theirs, i + 1, j + 1, can), LAMBDA rest :
                 IF isEqual(x, y, can) THEN rest
                 ELSE IF isFile(x) = isFile(y)
                      THEN <<rest[1], (<<updateCommand(y)>> \o rest[2])>>
                      ELSE <<(<<removeCommand(x)>> \o rest[1]),
                             (<<addCommand(y)>> \o rest[2])>>)

\* this._currentTree.calculatePatch(newTree, isEqual)
mergeCalculatePatch(ours, theirs, can) ==
  With(mergePatchLoop(ours, theirs, 0, 0, can), LAMBDA r : Reverse(r[1]) \o r[2])

\* FSMergeTree.prototype.changes: the error thrown or the patch returned, and
\* _currentTree afterwards.
mergeChanges(inputs, ow, can, current) ==
  With(mergeRelativePath(inputs, ow, can, <<>>, TRUE, {}), LAMBDA fileInfos :
    LET newTree == [k \in 1..Len(fileInfos.result) |-> fileInfos.result[k].entry]
    IN IF fileInfos.error # "none"
       THEN [error |-> fileInfos.error, returned |-> <<>>, currentTree |-> current]
       ELSE IF ~validateSortedUnique(newTree)
       THEN [error |-> "unsorted", returned |-> <<>>, currentTree |-> current]
       ELSE [error |-> "none", returned |-> mergeCalculatePatch(current, newTree, can),
             currentTree |-> newTree])

\* The paths of the trees whose merge is asked for its changes, what each can
\* be, and the trees.
ChangePaths == <<(<<"a">>), (<<"a", "/", "b">>), (<<"a", "/", "c">>)>>
ChangeKinds == <<{"absent", "directory"}, {"absent", "file"}, {"absent", "file"}>>
ChangeInputs == {EntriesOver(ChangePaths, shape) : shape \in ShapesOver(ChangePaths, ChangeKinds)}

\* new FSMergeTree({ inputs: [inTree1, inTree2] })
ChangesInit ==
  /\ Constructed
  /\ NoSource
  /\ NoFilter
  /\ NoNormalize
  /\ lastCall = Unobserved
  /\ oursTree = <<>>
  /\ theirsTree = <<>>
  /\ patch = <<>>
  /\ applied = -1
  /\ failure = "none"
  /\ disk = {}
  /\ canSymlink \in BOOLEAN
  /\ inputTrees \in [1..2 -> ChangeInputs]
  /\ overwrite = "null"
  /\ currentTree = <<>>
  /\ mergeResult = [op |-> "none", error |-> "none", returned |-> <<>>]

\* mergedTree.changes(overwriteOptions)
Changes(ow) ==
  /\ overwrite' = ow
  /\ \E r \in {mergeChanges(inputTrees, ow, canSymlink, currentTree)} :
       /\ mergeResult' = [op |-> "changes", error |-> r.error, returned |-> r.returned]
       /\ currentTree' = r.currentTree
  /\ UNCHANGED <<treeVars, patchVars, sourceVars, filterVars, normalizeVars, inputTrees>>

\* Writes to an input tree between two builds: the tree holds other paths.
InputWrite(i, tree) ==
  /\ i \in 1..Len(inputTrees)
  /\ inputTrees[i] # tree
  /\ inputTrees' = [inputTrees EXCEPT ![i] = tree]
  /\ UNCHANGED <<treeVars, patchVars, sourceVars, filterVars, normalizeVars, overwrite, currentTree, mergeResult>>

ChangesNext ==
  \/ \E ow \in OverwriteOptions : Changes(ow)
  \/ \E i \in 1..2, tree \in ChangeInputs : InputWrite(i, tree)

SpecChanges == ChangesInit /\ [][ChangesNext]_vars

(***************************************************************************)
(* shared.normalizeRelativePath and its memo.  A path is a sequence of     *)
(* characters; "constructor" stands for the eleven characters of that      *)
(* name, which is a property every object inherits from Object.prototype.  *)
(***************************************************************************)
MaxPathLen == 4
MaxMemo == 2

PathCharacters == {"a", ".", sep, "constructor"}
RelativePaths == UNION {[1..n -> PathCharacters] : n \in 0..MaxPathLen}

\* The properties normalizedPaths = {} inherits, among the paths of the model.
InheritedProperties == {<<"constructor">>}

RECURSIVE split(_)
\* relativePath.split(path.sep)
split(string) ==
  IF \A k \in 1..Len(string) : string[k] # sep THEN <<string>>
  ELSE LET first == CHOOSE k \in 1..Len(string) :
                      string[k] = sep /\ \A n \in 1..(k - 1) : string[n] # sep
       IN <<SubSeq(string, 1, first - 1)>> \o split(SubSeq(string, first + 1, Len(string)))

RECURSIVE join(_)
\* parts.join(path.sep)
join(parts) ==
  IF parts = <<>> THEN <<>>
  ELSE IF Len(parts) = 1 THEN parts[1]
  ELSE parts[1] \o <<sep>> \o join(Tail(parts))

RECURSIVE normalizeLoop(_, _)
\* for (let i = 0; i < parts.length; i++) of normalizeRelativePath.
normalizeLoop(parts, i) ==
  IF i >= Len(parts) THEN [error |-> "none", parts |-> parts]
  ELSE IF At(parts, i) = <<>> \/ At(parts, i) = <<".">>
  THEN normalizeLoop(SpliceOut(parts, i), i)
  ELSE IF At(parts, i) = <<".", ".">>
  THEN IF i = 0 THEN [error |-> "Invalid path", parts |-> parts]
       ELSE normalizeLoop(SpliceOut(SpliceOut(parts, i - 1), i - 1), i - 1)
  ELSE normalizeLoop(parts, i + 1)

\* relativePath in normalizedPaths, for a memo that inherits nothing.
inOwn(memo, relativePath) == \E e \in memo : e.key = relativePath

\* relativePath in normalizedPaths
in(memo, relativePath) ==
  relativePath \in InheritedProperties \/ \E e \in memo : e.key = relativePath

\* normalizedPaths[key] = value
memoize(memo, key, kind, value) ==
  {e \in memo : e.key # key} \cup {[key |-> key, kind |-> kind, value |-> value]}

\* shared.normalizeRelativePath(relativePath), for a string: what it returns
\* or throws and the memo afterwards.
normalizeRelativePath(memo, relativePath) ==
  IF in(memo, relativePath)
  THEN IF \E e \in memo : e.key = relativePath
       THEN With(CHOOSE e \in memo : e.key = relativePath, LAMBDA e :
              IF e.kind = "string"
              THEN [error |-> "none", returned |-> e.value, memo |-> memo]
              ELSE [error |-> e.value, returned |-> <<>>, memo |-> memo])
       ELSE [error |-> "not an Error", returned |-> <<>>, memo |-> memo]
  ELSE With(normalizeLoop(split(relativePath), 0), LAMBDA r :
         IF r.error # "none"
         THEN [error |-> r.error, returned |-> <<>>,
               memo |-> memoize(memo, relativePath, "error", r.error)]
         ELSE With(join(r.parts), LAMBDA normalizedPath :
              With(memoize(memo, relativePath, "string", normalizedPath), LAMBDA memo1 :
                [error |-> "none", returned |-> normalizedPath,
                 memo |-> IF in(memo1, normalizedPath) THEN memo1
                          ELSE memoize(memo1, normalizedPath, "string", normalizedPath)])))

\* The module was loaded: normalizedPaths = {}.
NormalizeInit ==
  /\ Constructed
  /\ NoPatch
  /\ NoSource
  /\ NoFilter
  /\ NoMerge
  /\ lastCall = Unobserved
  /\ normalizedPaths = {}
  /\ normalized = [called |-> FALSE, path |-> <<>>, error |-> "none", returned |-> <<>>]

\* shared.normalizeRelativePath(relativePath); the memo of the model holds up
\* to MaxMemo paths.
NormalizeRelativePath(relativePath) ==
  /\ in(normalizedPaths, relativePath) \/ Cardinality(normalizedPaths) < MaxMemo
  /\ \E r \in {normalizeRelativePath(normalizedPaths, relativePath)} :
       /\ normalizedPaths' = r.memo
       /\ normalized' = [called |-> TRUE, path |-> relativePath, error |-> r.error,
                         returned |-> r.returned]
  /\ UNCHANGED <<treeVars, patchVars, sourceVars, filterVars, mergeVars>>

NormalizeNext == \E relativePath \in RelativePaths : NormalizeRelativePath(relativePath)

SpecNormalize == NormalizeInit /\ [][NormalizeNext]_vars

(***************************************************************************)
(* Writes across links: tree 2 links its path l to the root of tree 1,     *)
(* which comes to hold b (a directory or a file), and its clients write at  *)
(* l, below l and below a directory c that tree 2 may not have.            *)
(***************************************************************************)
AcrossPaths == {<<"l">>, <<"l", "/", "b">>, <<"c", "/", "b">>}

AcrossNext ==
  \/ state[1] = "stopped" /\ Start(1)
  \/ MkdirSync(1, <<"b">>)
  \/ WriteFileSync(1, <<"b">>, <<"x">>)
  \/ state[2] = "stopped" /\ Start(2)
  \/ \E p \in AcrossPaths :
       \/ MkdirSync(2, p)
       \/ MkdirpSync(2, p)
       \/ RmdirSync(2, p)
       \/ UnlinkSync(2, p)
       \/ RemoveSync(2, p)
       \/ EmptySync(2, p)
       \/ WriteFileSync(2, p, <<"x">>)
       \/ SymlinkSync(2, p)
       \/ \E targetPath \in {<<>>, <<"b">>} :
            Len(proj) < MaxProjections /\ SymlinkToFacadeSync(2, 1, targetPath, p)

SpecAcross == Init /\ [][AcrossNext]_vars

(***************************************************************************)
(* Tracked changes against a snapshot diff.                                *)
(***************************************************************************)
\* The <<operation, path>> pairs of a list of changes.
PairsOf(list) == {<<list[i].op, list[i].path>> : i \in 1..Len(list)}

\* What tree 1 reports, and what diffing its entries at start() against its
\* entries now gives.
TrackedPairs == PairsOf(changes(World, 1))
PatchPairs == PairsOf(calculatePatch(startEntries[1], treeEntries(World, 1)))

\* The entry an array holds for a path, as a sequence of at most one entry.
EntryAt(array, path) ==
  LET index == searchByRelativePath(array, path, FALSE)
  IN IF index = -1 THEN <<>> ELSE <<At(array, index)>>

\* A tracked pair the snapshot diff does not have is a change of a file whose
\* size, mtime and mode are what they were at start().
UnseenRewrite(pair) ==
  LET before == EntryAt(startEntries[1], pair[2])
      after == EntryAt(treeEntries(World, 1), pair[2])
  IN /\ pair[1] = "change"
     /\ before # <<>> /\ after # <<>>
     /\ isFile(before[1]) /\ isFile(after[1])
     /\ defaultIsEqual(before[1], after[1])

\* C1 as stated: in a started WritableTree without symlinks the (operation,
\* path) pairs of changes() are exactly those of the snapshot diff from the
\* entries at start() to the current entries.
C1_AsStated == state[1] = "started" => TrackedPairs = PatchPairs

\* C1, amended: in a started WritableTree without symlinks every pair of the
\* snapshot diff is reported by changes(), and every pair changes() reports
\* beyond the diff is the change of a file rewritten with the size, mtime and
\* mode it had at start(), which the default equality cannot see.
C1_TrackedCoversPatch ==
  state[1] = "started" =>
    /\ PatchPairs \subseteq TrackedPairs
    /\ \A pair \in TrackedPairs \ PatchPairs : UnseenRewrite(pair)

\* changes() reports the rewrite of a/b, which the snapshot diff cannot see.
C1_Witness ==
  /\ state[1] = "started"
  /\ TrackedPairs \ PatchPairs = {<<"change", <<"a", "/", "b">>>>}
  /\ UnseenRewrite(<<"change", <<"a", "/", "b">>>>)

(***************************************************************************)
(* C2.                                                                     *)
(***************************************************************************)
\* C2: in every reachable state the list changes() returns for a tree passes
\* verifyChangeOrder: no path twice (except rmdir then create, unlink then
\* mkdir), no mkdir after a change below it, no change below a removed
\* directory.
C2_ChangesInValidOrder ==
  \A t \in Trees : verifyChangeOrder(changes(World, t)) = "ok"

(***************************************************************************)
(* C3.                                                                     *)
(***************************************************************************)
\* C3: in every reachable state the entries of every tree and of every
\* projection are strictly ascending by relativePath, with no path twice.
C3_EntriesSortedUnique ==
  /\ \A t \in Trees : validateSortedUnique(treeEntries(World, t))
  /\ \A i \in 1..Len(proj) : validateSortedUnique(projectionEntries(World, proj[i]))

IsRemove(change) == change.op \in {"unlink", "rmdir"}

\* Removes first and descending by path, then additions and updates ascending.
Canonical(list) ==
  \A i, j \in 1..Len(list) :
    i < j =>
      /\ ~(~IsRemove(list[i]) /\ IsRemove(list[j]))
      /\ (IsRemove(list[i]) /\ IsRemove(list[j])) => ~StringLess(list[i].path, list[j].path)
      /\ (~IsRemove(list[i]) /\ ~IsRemove(list[j])) => ~StringLess(list[j].path, list[i].path)

\* C5: whenever changes() of a tree or of a projection returns a patch (the
\* ManualTree a projection makes of its snapshot accepts the snapshot), the
\* patch is in canonical order.
C5_ChangesCanonical ==
  /\ \A t \in Trees : Canonical(changes(World, t))
  /\ \A i \in 1..Len(proj) :
       validateSortedUnique(proj[i].previousEntries)
         => Canonical(projectionChanges(World, proj[i]))

(***************************************************************************)
(* C6.                                                                     *)
(***************************************************************************)
\* C6: start() leaves the tree started and with no change to report, whatever
\* was tracked before; stop() leaves what changes() reports as it was.
C6_StartClearsStopKeeps ==
  [][/\ Start(1) => (state'[1] = "started" /\ changes(World, 1)' = <<>>)
     /\ Stop(1) => (changes(World, 1)' = changes(World, 1))]_vars

\* A started tree that has entries, written in an earlier period, and no
\* change to report.
C6_Witness ==
  /\ state[1] = "started"
  /\ entries[1] # <<>>
  /\ changes(World, 1) = <<>>

(***************************************************************************)
(* C7.                                                                     *)
(***************************************************************************)
MaxUndo == 3

\* The tracked writes C7 names, and the logical inverse of each.
UndoOperations == [kind : {"mkdir", "create", "rmdir", "unlink"}, path : Paths \ {<<>>}]

Inverse(o) ==
  [kind |-> CASE o.kind = "mkdir" -> "rmdir"
              [] o.kind = "rmdir" -> "mkdir"
              [] o.kind = "create" -> "unlink"
              [] o.kind = "unlink" -> "create",
   path |-> o.path]

\* The call that performs o on tree 1; a create is a writeFileSync that makes
\* a file, so it is not called where something exists.
Perform(X, o) ==
  CASE o.kind = "mkdir" -> mkdirSync(X, 1, o.path)
    [] o.kind = "rmdir" -> rmdirSync(X, 1, o.path)
    [] o.kind = "unlink" -> unlinkSync(X, 1, o.path)
    [] o.kind = "create" ->
         IF findByRelativePath(X, 1, o.path, TRUE).found THEN Throw("EEXIST", X)
         ELSE writeFileSync(X, 1, o.path, <<"x">>)

RECURSIVE PerformAll(_, _)
PerformAll(X, sequence) ==
  IF sequence = <<>> THEN Return(X)
  ELSE With(Perform(X, Head(sequence)), LAMBDA r :
         IF r.result # "ok" THEN r ELSE PerformAll(r.world, Tail(sequence)))

PathsAndKinds(X) ==
  With(treeEntries(X, 1), LAMBDA array :
    {<<array[i].relativePath, isDirectory(array[i])>> : i \in 1..Len(array)})

RECURSIVE Restorable(_, _, _)
\* From the world X that a sequence of tracked writes has led to, where undo is
\* the inverses of the sequence in reverse order: undo succeeds and restores
\* the paths and kinds of the present entries, and so it is after up to n
\* further writes.
Restorable(X, undo, n) ==
  /\ \A undone \in {PerformAll(X, undo)} :
       /\ undone.result = "ok"
       /\ PathsAndKinds(undone.world) = PathsAndKinds(World)
  /\ n > 0 =>
       \A o \in UndoOperations :
         \A done \in {Perform(X, o)} :
           done.result = "ok" => Restorable(done.world, <<Inverse(o)>> \o undo, n - 1)

\* C7: in a started tree, after any sequence of tracked writes that succeed,
\* their logical inverses in reverse order succeed and leave entries with
\* exactly the paths and kinds it had before the sequence.
C7_InversesRestoreEntries ==
  state[1] = "started" => Restorable(World, <<>>, MaxUndo)

\* From a tree that holds a/b, the file and then its directory can be removed,
\* and the directory and then the file made again.
C7_Witness ==
  /\ state[1] = "started"
  /\ \A done \in {PerformAll(World, <<[kind |-> "unlink", path |-> <<"a", "/", "b">>],
                                      [kind |-> "rmdir", path |-> <<"a">>]>>)} :
       /\ done.result = "ok"
       /\ PathsAndKinds(done.world) # PathsAndKinds(World)
       /\ PerformAll(done.world, <<[kind |-> "mkdir", path |-> <<"a">>],
                                   [kind |-> "create", path |-> <<"a", "/", "b">>]>>).result = "ok"

(***************************************************************************)
(* C8.                                                                     *)
(***************************************************************************)
\* The operations the tracker of tree 1 holds for a path, in list order.
TrackedFor(X, normalizedPath) ==
  LET selected == SelectSeq(X.tracker[1].list, LAMBDA change : change.path = normalizedPath)
  IN [i \in 1..Len(selected) |-> selected[i].op]

\* What tree 1 had at a path when it was started: "file", "directory" or "nothing".
KindOf(found) ==
  IF found = <<>> THEN "nothing"
  ELSE IF isDirectory(found[1]) THEN "directory" ELSE "file"

AtStart(normalizedPath) == KindOf(EntryAt(startEntries[1], normalizedPath))
AtPresent(normalizedPath) == KindOf(EntryAt(entries[1], normalizedPath))

\* C8: when a file that was there at start() has been unlinked, writing a file
\* at its path again in the same started period leaves the tracker with
\* exactly one change for the path, a `change`.
C8_RewriteAfterUnlinkIsChange ==
  state[1] = "started" =>
    \A p \in Paths \ {<<>>}, content \in Contents :
      (AtStart(p) = "file" /\ AtPresent(p) = "nothing") =>
        \A written \in {writeFileSync(World, 1, p, content)} :
          written.result = "ok" => TrackedFor(written.world, p) = <<"change">>

\* The file a/b was there at start() and was unlinked; it can be written again.
C8_Witness ==
  /\ state[1] = "started"
  /\ AtStart(<<"a", "/", "b">>) = "file"
  /\ AtPresent(<<"a", "/", "b">>) = "nothing"
  /\ TrackedFor(World, <<"a", "/", "b">>) = <<"unlink">>
  /\ writeFileSync(World, 1, <<"a", "/", "b">>, <<"x">>).result = "ok"

(***************************************************************************)
(* C9.                                                                     *)
(***************************************************************************)
\* What is tracked for p after mkdir(p) and then rmdir(p); <<"failed">> when
\* the rmdir fails.
AfterMkdirRmdir(made, p) ==
  \* made is the outcome of mkdirSync
  With(rmdirSync(made.world, 1, p), LAMBDA removed :
    IF removed.result = "ok" THEN TrackedFor(removed.world, p) ELSE <<"failed">>)

AfterRmdirMkdir(removed, p) ==
  With(mkdirSync(removed.world, 1, p), LAMBDA made :
    IF made.result = "ok" THEN TrackedFor(made.world, p) ELSE <<"failed">>)

\* rmdir(p) of a directory that was there at start() followed by mkdir(p)
\* leaves nothing tracked for p.
RmdirMkdirTracksNothing(p) ==
  AtStart(p) = "directory" =>
    \A removed \in {rmdirSync(World, 1, p)} :
      removed.result = "ok" => AfterRmdirMkdir(removed, p) = <<>>

\* C9 as stated: mkdir(p) followed by rmdir(p) of the new directory, and
\* rmdir(p) of a directory that was there at start() followed by mkdir(p),
\* each leave no tracked change for p.
C9_AsStated ==
  state[1] = "started" =>
    \A p \in Paths \ {<<>>} :
      /\ \A made \in {mkdirSync(World, 1, p)} :
           made.result = "ok" => AfterMkdirRmdir(made, p) = <<>>
      /\ RmdirMkdirTracksNothing(p)

\* C9, amended: mkdir(p) at a path that held nothing at start() followed by
\* rmdir(p) of the new directory, and rmdir(p) of a directory that was there
\* at start() followed by mkdir(p), each leave no tracked change for p.
C9_PairsTrackNothing ==
  state[1] = "started" =>
    \A p \in Paths \ {<<>>} :
      /\ AtStart(p) = "nothing" =>
           \A made \in {mkdirSync(World, 1, p)} :
             made.result = "ok" => AfterMkdirRmdir(made, p) = <<>>
      /\ RmdirMkdirTracksNothing(p)

\* The directory a was there at start() and can be removed and made again;
\* a/b was not there and can be made and removed again.
C9_Witness ==
  /\ state[1] = "started"
  /\ AtStart(<<"a">>) = "directory"
  /\ AtStart(<<"a", "/", "b">>) = "nothing"
  /\ AfterRmdirMkdir(rmdirSync(World, 1, <<"a">>), <<"a">>) = <<>>
  /\ AfterMkdirRmdir(mkdirSync(World, 1, <<"a", "/", "b">>), <<"a", "/", "b">>) = <<>>
  /\ rmdirSync(World, 1, <<"a">>).result = "ok"
  /\ mkdirSync(World, 1, <<"a", "/", "b">>).result = "ok"

(***************************************************************************)
(* C10.                                                                    *)
(***************************************************************************)
\* What is tracked for p once the file at p is unlinked; <<"failed">> when
\* the unlink fails.
AfterUnlink(p) ==
  With(unlinkSync(World, 1, p), LAMBDA unlinked :
    IF unlinked.result = "ok" THEN TrackedFor(unlinked.world, p) ELSE <<"failed">>)

\* C10 as stated: unlinking a file that was created since start() leaves
\* nothing tracked for its path, and unlinking one that was there at start()
\* leaves exactly one unlink.
C10_AsStated ==
  state[1] = "started" =>
    \A p \in Paths \ {<<>>} :
      AtPresent(p) = "file" =>
        AfterUnlink(p) = (IF AtStart(p) = "file" THEN <<"unlink">> ELSE <<>>)

\* C10, amended: unlinking a file leaves no create and no change tracked for
\* its path: exactly one unlink when a file was there at start(), nothing
\* when nothing was there, and the rmdir of the directory that was there.
C10_UnlinkDropsCreateAndChange ==
  state[1] = "started" =>
    \A p \in Paths \ {<<>>} :
      AtPresent(p) = "file" =>
        AfterUnlink(p) = (CASE AtStart(p) = "file" -> <<"unlink">>
                            [] AtStart(p) = "directory" -> <<"rmdir">>
                            [] AtStart(p) = "nothing" -> <<>>)

\* A file that was there at start() and was written again is unlinked.
C10_Witness ==
  /\ state[1] = "started"
  /\ AtStart(<<"a">>) = "file"
  /\ AtPresent(<<"a">>) = "file"
  /\ TrackedFor(World, <<"a">>) = <<"change">>
  /\ AfterUnlink(<<"a">>) = <<"unlink">>

(***************************************************************************)
(* C11.                                                                    *)
(***************************************************************************)
\* The entries the tracker of tree 1 holds for a path, in list order.
TrackedEntriesFor(X, normalizedPath) ==
  LET selected == SelectSeq(X.tracker[1].list, LAMBDA change : change.path = normalizedPath)
  IN [i \in 1..Len(selected) |-> selected[i].entry]

\* The write tracked one create or change for p that carries the entry the
\* tree now holds for p, after the operations in `before`.
TracksLatest(written, p, before, operation_) ==
  /\ TrackedFor(written.world, p) = before \o <<operation_>>
  /\ <<TrackedEntriesFor(written.world, p)[Len(before) + 1]>> = EntryAt(written.world.entries[1], p)

\* C11 as stated: a content-changing write to a file leaves exactly one
\* tracked change for its path, a create with the latest entry when the file
\* was created since start() and a change with the latest entry otherwise.
C11_AsStated ==
  state[1] = "started" =>
    \A p \in Paths \ {<<>>}, content \in Contents :
      \A written \in {writeFileSync(World, 1, p, content)} :
        written.result = "ok" =>
          TracksLatest(written, p, <<>>, IF AtStart(p) = "file" THEN "change" ELSE "create")

\* C11, amended: a content-changing write to a file leaves exactly one tracked
\* create or change for its path, carrying the latest entry: a change when a
\* file was there at start(), a create otherwise; beside it only the rmdir of
\* a directory that was at the path at start() is tracked for the path.
C11_OneCreateOrChange ==
  state[1] = "started" =>
    \A p \in Paths \ {<<>>}, content \in Contents :
      \A written \in {writeFileSync(World, 1, p, content)} :
        written.result = "ok" =>
          TracksLatest(written, p,
                       IF AtStart(p) = "directory" THEN <<"rmdir">> ELSE <<>>,
                       IF AtStart(p) = "file" THEN "change" ELSE "create")

\* A file created since start() is tracked as a create and is written with
\* other content; a later millisecond makes the latest entry differ.
C11_Witness ==
  /\ state[1] = "started"
  /\ AtStart(<<"a">>) = "nothing"
  /\ TrackedFor(World, <<"a">>) = <<"create">>
  /\ EntryAt(entries[1], <<"a">>) # <<>>
  /\ EntryAt(entries[1], <<"a">>)[1].checksum = md5hex(<<"x">>)
  /\ EntryAt(entries[1], <<"a">>)[1].mtime < now
  /\ writeFileSync(World, 1, <<"a">>, <<"y">>).result = "ok"

(***************************************************************************)
(* C12.                                                                    *)
(***************************************************************************)
\* The second of two writes of the same bytes returns at the unchanged
\* checksum, before the file is written, and leaves entries and tracker alone.
SecondWriteDoesNothing(first, p, content) ==
  \A second \in {writeFileSync(first.world, 1, p, content)} :
    /\ second.result = "noop"
    /\ second.world = first.world

\* The creates and changes tracked for a path.
CreatesAndChanges(X, p) ==
  SelectSeq(TrackedFor(X, p), LAMBDA operation_ : operation_ \in {"create", "change"})

\* C12 as stated: two writes of the same bytes to p in a row produce exactly
\* one tracked change for p, and the second writes nothing and leaves the
\* entry alone.
C12_AsStated ==
  state[1] = "started" =>
    \A p \in Paths \ {<<>>}, content \in Contents :
      \A first \in {writeFileSync(World, 1, p, content)} :
        first.result \in {"ok", "noop"} =>
          /\ SecondWriteDoesNothing(first, p, content)
          /\ \A second \in {writeFileSync(first.world, 1, p, content)} :
               Len(TrackedFor(second.world, p)) = 1

\* C12, amended: the second of two writes of the same bytes to p in a row
\* writes nothing and leaves entry and tracker alone; when the first one
\* created the file or changed its content exactly one create or change is
\* tracked for p, and when the file held the bytes already the first one
\* tracks nothing either.
C12_SecondWriteIsNoop ==
  state[1] = "started" =>
    \A p \in Paths \ {<<>>}, content \in Contents :
      \A first \in {writeFileSync(World, 1, p, content)} :
        first.result \in {"ok", "noop"} =>
          /\ SecondWriteDoesNothing(first, p, content)
          /\ first.result = "ok" => Len(CreatesAndChanges(first.world, p)) = 1
          /\ first.result = "noop" => first.world = World

\* The file a/b was created a millisecond ago with the bytes x and is written
\* with x again.
C12_Witness ==
  /\ state[1] = "started"
  /\ TrackedFor(World, <<"a", "/", "b">>) = <<"create">>
  /\ EntryAt(entries[1], <<"a", "/", "b">>) # <<>>
  /\ EntryAt(entries[1], <<"a", "/", "b">>)[1].mtime < now
  /\ writeFileSync(World, 1, <<"a", "/", "b">>, <<"x">>).result = "noop"

(***************************************************************************)
(* C13.                                                                    *)
(***************************************************************************)
\* The entries of a list with the path and the kind of an entry.
SameKindIn(list, entry) ==
  SelectSeq(list, LAMBDA other : /\ other.relativePath = entry.relativePath
                                 /\ isFile(other) = isFile(entry))

\* Walking the sorted lists meets their entries in list order.  An entry of
\* ours is removed when theirs has no entry of its path and kind; an entry of
\* theirs is added when ours has none of its path and kind, and updated when
\* ours has one that is not equal to it.
IsRemoved(x) == SameKindIn(theirsTree, x) = <<>>
IsAdded(y) == SameKindIn(oursTree, y) = <<>>
IsUpdated(y) == ~IsAdded(y) /\ ~defaultIsEqual(SameKindIn(oursTree, y)[1], y)

RemovalsMet ==
  LET met == SelectSeq(oursTree, IsRemoved)
  IN [i \in 1..Len(met) |-> removeCommand(met[i])]

AdditionsMet ==
  LET met == SelectSeq(theirsTree, LAMBDA y : IsAdded(y) \/ IsUpdated(y))
  IN [i \in 1..Len(met) |-> IF IsAdded(met[i]) THEN addCommand(met[i])
                            ELSE updateCommand(met[i])]

\* C13: the patch is the removals in the reverse of the order in which the
\* walk over the sorted entries meets them, followed by the additions and
\* updates in the order in which it meets them.
C13_RemovalsReversedThenAdditions ==
  applied >= 0 => patch = Reverse(RemovalsMet) \o AdditionsMet

\* A patch with two removals and two additions or updates.
C13_Witness ==
  /\ applied >= 0
  /\ Len(RemovalsMet) >= 2
  /\ Len(AdditionsMet) >= 2
  /\ \E i \in 1..Len(patch) : patch[i].op = "change"

(***************************************************************************)
(* C14.                                                                    *)
(***************************************************************************)
IsAddition(change) == change.op \in {"mkdir", "create"}

\* No directory is removed ahead of a removal beneath it.
RemovedAfterContents ==
  \A i, j \in 1..Len(patch) :
    (i < j /\ patch[i].op = "rmdir") =>
      ~(IsRemove(patch[j]) /\ Beneath(patch[j].path, patch[i].path))

\* No entry is created ahead of the mkdir of a directory above it.
AddedAfterParent ==
  \A i, j \in 1..Len(patch) :
    (i < j /\ IsAddition(patch[i])) =>
      ~(patch[j].op = "mkdir" /\ Beneath(patch[i].path, patch[j].path))

\* A path that is a file in one list and a directory in the other is removed
\* as what it was and, later in the patch, added as what it becomes.
KindChangeIsRemoveThenAdd ==
  \A n \in 1..Len(oursTree), q \in 1..Len(theirsTree) :
    (/\ oursTree[n].relativePath = theirsTree[q].relativePath
     /\ isFile(oursTree[n]) # isFile(theirsTree[q])) =>
      \E i, j \in 1..Len(patch) :
        /\ i < j
        /\ patch[i].path = oursTree[n].relativePath
        /\ patch[j].path = oursTree[n].relativePath
        /\ patch[i].op = (IF isFile(oursTree[n]) THEN "unlink" ELSE "rmdir")
        /\ patch[j].op = (IF isFile(oursTree[n]) THEN "mkdir" ELSE "create")

ValidApplyOrder == RemovedAfterContents /\ AddedAfterParent /\ KindChangeIsRemoveThenAdd

\* C14: the patch between any two sorted unique entry lists is a valid apply
\* order: no directory is removed before what is removed beneath it, no entry
\* is created before its parent directory is, and a change of kind is a
\* remove of the old kind followed by an add of the new one.
C14_ValidApplyOrder ==
  applied >= 0 => ValidApplyOrder

\* The directory a with a file in it becomes the file a.
C14_Witness ==
  /\ applied >= 0
  /\ [i \in 1..Len(patch) |-> <<patch[i].op, patch[i].path>>]
       = <<(<<"unlink", <<"a", "/", "b">> >>), (<<"rmdir", <<"a">> >>), (<<"create", <<"a">> >>)>>

(***************************************************************************)
(* C15.                                                                    *)
(***************************************************************************)
\* No operation of the patch has failed, and once they are all applied the
\* output directory holds theirs.
AppliesToTheirs ==
  /\ failure = "none"
  /\ applied = Len(patch) => disk = DiskOf(theirsTree, canSymlink)

\* C15 as stated: for sorted unique lists ours and theirs, applying the patch
\* in order with the default delegate to a directory that holds ours gives a
\* directory that holds theirs, and no operation fails.
C15_AsStated ==
  (applied >= 0 /\ IsExpanded(oursTree)) => AppliesToTheirs

\* C15, amended: so it is for sorted unique lists ours and theirs that hold
\* the parent directory of each of their entries.
C15_PatchAppliesToTheirs ==
  (applied >= 0 /\ IsExpanded(oursTree) /\ IsExpanded(theirsTree)) => AppliesToTheirs

\* A patch of three operations or more, one of them a change, was applied to
\* the end where the platform copies.
C15_Witness ==
  /\ applied = Len(patch)
  /\ applied >= 3
  /\ ~canSymlink
  /\ IsExpanded(oursTree) /\ IsExpanded(theirsTree)
  /\ \E i \in 1..Len(patch) : patch[i].op = "change"
  /\ \E i \in 1..Len(patch) : patch[i].op = "rmdir"
  /\ disk = DiskOf(theirsTree, canSymlink)


(***************************************************************************)
(* C16.  Between two reread() calls a SourceTree reads each directory from *)
(* disk at most once: _ensureDirectoryScanned of a directory already       *)
(* scanned returns nothing and leaves the cached entries, the scanned set  *)
(* and the disk reads as they were, whatever the disk holds by then; and   *)
(* reread() empties the scanned set and the cached entries, after which    *)
(* the next access of a directory reads the disk as it is now.             *)
(***************************************************************************)
RepeatedScanDoesNothing ==
  \A d \in scannedDirectories :
    \A r \in {ensureDirectoryScanned(Source, d)} :
      /\ r.error = "none"
      /\ r.returned = <<>>
      /\ ~r.scanned
      /\ r.world = Source

RereadForgets ==
  \A done \in {sourceRereadSync(Source)} :
    done.error = "none" =>
      /\ done.world.scanned = {}
      /\ done.world.entries = <<>>
      /\ \A d \in SourceDirectories :
           \A r \in {ensureDirectoryScanned(done.world, d)} :
             r.error = "none" =>
               /\ r.scanned
               /\ r.returned = scanEntriesForDirectory(sourceDisk, d)
               /\ r.world.scans[d] = 1

C16_ScannedOncePerReread ==
  /\ \A d \in SourceDirectories : scans[d] <= 1
  /\ \A d \in SourceDirectories : scans[d] = 1 <=> d \in scannedDirectories
  /\ RepeatedScanDoesNothing
  /\ RereadForgets

\* A directory was scanned after a reread, and the disk has since come to
\* hold an entry in it that the cache does not know.
C16_Witness ==
  /\ sourcePrevious # <<>>
  /\ \E d \in scannedDirectories :
       /\ scans[d] = 1
       /\ \E i \in DOMAIN scanEntriesForDirectory(sourceDisk, d) :
            searchByRelativePath(sourceEntries,
              scanEntriesForDirectory(sourceDisk, d)[i].relativePath, FALSE) = -1


(***************************************************************************)
(* C17.  After _ensureSubtreeScanned(p), every directory at or below p is  *)
(* in the scanned set and every path the disk holds below p is in the      *)
(* entries, whichever directories were scanned before.  It is stated for a *)
(* cache that agrees with the disk in the directories scanned so far, and  *)
(* for p the root or a directory on the disk.                              *)
(***************************************************************************)
AtOrBelow(relativePath, directory) ==
  directory = <<>> \/ relativePath = directory \/ Beneath(relativePath, directory)

\* The cached entries are what the disk holds in the scanned directories.
CacheIsCurrent ==
  /\ \A i \in DOMAIN sourceEntries :
       /\ dirname(sourceEntries[i].relativePath) \in scannedDirectories
       /\ \E f \in sourceDisk : StatEntry(f) = sourceEntries[i]
  /\ \A f \in sourceDisk :
       dirname(f.path) \in scannedDirectories =>
         searchByRelativePath(sourceEntries, f.path, FALSE) # -1

SubtreeScanned(S, normalizedPath) ==
  /\ \A d \in SourceDirectories :
       (AtOrBelow(d, normalizedPath) /\ (d = normalizedPath \/ KindOnDisk(S.disk, d) = "directory"))
         => d \in S.scanned
  /\ \A f \in S.disk :
       (f.path # normalizedPath /\ AtOrBelow(f.path, normalizedPath))
         => searchByRelativePath(S.entries, f.path, FALSE) # -1

C17_SubtreeScanned ==
  CacheIsCurrent =>
    \A normalizedPath \in SourceDirectories :
      (normalizedPath = <<>> \/ KindOnDisk(sourceDisk, normalizedPath) = "directory") =>
        \A r \in {ensureSubtreeScanned(Source, normalizedPath)} :
          r.error = "none" /\ SubtreeScanned(r.world, normalizedPath)


(***************************************************************************)
(* C18.  A single reread() of a tree invokes the private _reread of each   *)
(* of the tree's current children exactly once: FacadeTree's _reread calls *)
(* every child once, and the reread() of a tree that is not in Delegator   *)
(* mode is that _reread, after which the projections reached hold their    *)
(* snapshot and no other projection has changed.                           *)
(***************************************************************************)
RereadReaches(w, calls) ==
  \A r \in {reread(World, w)} :
    /\ r.result = "ok"
    /\ \A i \in 1..Len(proj) :
         IF Count(calls, ProjectionNode(i)) > 0
         THEN /\ r.world.proj[i].hasPrevious
              /\ r.world.proj[i].previousEntries = projectionEntries(World, proj[i])
         ELSE r.world.proj[i] = proj[i]

C18_ChildrenRereadOnce ==
  \A w \in Trees :
    \A calls \in {facadeReread(World, TreeNode(w))} :
      /\ \A child \in childrenOf(World, TreeNode(w)) : Count(calls, child) = 1
      /\ delegate[w] = 0 => RereadReaches(w, calls)

\* Tree 1 was reread while it had two children.
C18_Witness ==
  /\ lastCall.op = "reread"
  /\ lastCall.tree = 1
  /\ delegate[1] = 0
  /\ Cardinality(childrenOf(World, TreeNode(1))) = 2
  /\ \A i \in 1..Len(proj) : proj[i].hasPrevious


(***************************************************************************)
(* C19.  The public reread() of a tree in Delegator mode does nothing: it  *)
(* calls no _reread and changes no tree.  A reread of the tree that owns   *)
(* the delegate calls the Delegator's private _reread once, and through it *)
(* the _reread of each of the Delegator's children once, so that each      *)
(* child takes its snapshot once in a cycle in which both trees are        *)
(* reread.                                                                 *)
(***************************************************************************)
Owner(w) == proj[delegate[w]].parent

C19_DelegatorRereadIsPrivate ==
  \A w \in Trees :
    delegate[w] # 0 =>
      /\ reread(World, w) = Noop(World)
      /\ delegate[Owner(w)] = 0
      /\ \A calls \in {facadeReread(World, TreeNode(Owner(w)))} :
           /\ Count(calls, TreeNode(w)) = 1
           /\ \A child \in childrenOf(World, TreeNode(w)) : Count(calls, child) = 1
           /\ RereadReaches(Owner(w), calls)

\* Tree 2, a Delegator with a projection of its own that took its snapshot
\* when tree 1 was reread, had its reread() called.
C19_Witness ==
  /\ delegate[2] # 0
  /\ lastCall.op = "reread"
  /\ lastCall.tree = 2
  /\ lastCall.result = "noop"
  /\ \E i \in 1..Len(proj) : proj[i].parent = 2 /\ proj[i].attached /\ proj[i].hasPrevious


(***************************************************************************)
(* C20.  symlinkToFacadeSync at the root of a started WritableTree         *)
(* succeeds only when the tree has no entries; with any entry present it   *)
(* fails with ENOTEMPTY and the tree stays the WritableTree it was; on     *)
(* success the tree is a Delegator whose delegate is the projection        *)
(* target.chdir(targetPath) makes, and its entries, paths and changes are  *)
(* that projection's.                                                      *)
(***************************************************************************)
PathsOf(array) == [i \in 1..Len(array) |-> array[i].relativePath]

\* Tree w reads as the projection P does.
ReadsAs(X, w, P) ==
  /\ treeEntries(X, w) = projectionEntries(X, P)
  /\ PathsOf(treeEntries(X, w)) = PathsOf(projectionEntries(X, P))
  /\ changes(X, w) = projectionChanges(X, P)

RootLink(w, targetFacade, targetPath) ==
  \A r \in {symlinkToFacadeSync(World, w, targetFacade, targetPath, <<>>)} :
    /\ r.result = "ok" => entries[w] = <<>>
    /\ entries[w] # <<>> =>
         /\ r.result = "ENOTEMPTY"
         /\ r.world = World
    /\ r.result = "ok" =>
         /\ r.world.delegate[w] = Len(proj) + 1
         /\ r.world.proj = Append(proj, Projection(targetFacade, targetPath))
         /\ ReadsAs(r.world, w, Projection(targetFacade, targetPath))

C20_RootLinkNeedsEmptyTree ==
  /\ \A targetPath \in CallPaths :
       (state[2] = "started" /\ delegate[2] = 0) => RootLink(2, 1, targetPath)
  /\ (lastCall.op = "symlinkToFacadeSync" /\ lastCall.path = <<>>) =>
       /\ lastCall.result = "ok" =>
            /\ delegate[2] = Len(proj)
            /\ entries[2] = <<>>
            /\ ReadsAs(World, 2, proj[delegate[2]])
       /\ lastCall.result = "ENOTEMPTY" => (delegate[2] = 0 /\ entries[2] # <<>>)

\* The root of tree 2 was linked to the root of tree 1, which holds a directory.
C20_Witness ==
  /\ lastCall.op = "symlinkToFacadeSync"
  /\ lastCall.path = <<>>
  /\ lastCall.result = "ok"
  /\ delegate[2] # 0
  /\ proj[delegate[2]] = Projection(1, <<>>)
  /\ treeEntries(World, 2) # <<>>


(***************************************************************************)
(* C21.  undoRootSymlinkSync after a root symlinkToFacadeSync makes the    *)
(* started tree a WritableTree again: it has no delegate, it is not among  *)
(* the children of the projection it delegated to, its write operations    *)
(* work, and its entries are empty whatever the delegate holds.            *)
(***************************************************************************)
Undone(X, w, formerDelegate) ==
  /\ X.delegate[w] = 0
  /\ TreeNode(w) \notin childrenOf(X, ProjectionNode(formerDelegate))
  /\ X.entries[w] = <<>>
  /\ treeEntries(X, w) = <<>>
  /\ mkdirSync(X, w, <<"a">>).result = "ok"

C21_UndoRestoresEmptyWritableTree ==
  /\ \A w \in Trees :
       (delegate[w] # 0 /\ state[w] = "started") =>
         \A r \in {undoRootSymlinkSync(World, w)} :
           r.result = "ok" /\ Undone(r.world, w, delegate[w])
  /\ (lastCall.op = "undoRootSymlinkSync" /\ lastCall.result = "ok") =>
       \A i \in 1..Len(proj) : Undone(World, lastCall.tree, i)

\* The root link of tree 2 to a tree 1 that holds a directory was undone.
C21_Witness ==
  /\ lastCall.op = "undoRootSymlinkSync"
  /\ lastCall.result = "ok"
  /\ lastCall.tree = 2
  /\ delegate[2] = 0
  /\ \E i \in 1..Len(proj) : projectionEntries(World, proj[i]) # <<>>
  /\ tracker[2].list # <<>>


(***************************************************************************)
(* C22.  The links among trees are acyclic in every reachable state: no    *)
(* sequence of filtered, symlinkToFacadeSync and undoRootSymlinkSync calls *)
(* makes a tree reachable from itself through delegates and the targets of *)
(* directory links.                                                        *)
(***************************************************************************)
C22_LinksAcyclic == Acyclic(World)


(***************************************************************************)
(* C23.  changes() of a Projection returns the patch calculatePatch makes  *)
(* from its snapshot, the entries its most recent _reread captured (none   *)
(* if it was never reread), to its current entries; a files filter set     *)
(* after the snapshot is therefore reported as the removals and additions  *)
(* from the snapshot to the entries under the new filter.                  *)
(***************************************************************************)
Snapshot(P) == IF P.hasPrevious THEN P.previousEntries ELSE <<>>

\* changes() of the projection returns, and returns the patch from the
\* snapshot to what the projection's entries are.
ChangesFromSnapshot(P, snapshot) ==
  /\ validateSortedUnique(snapshot)
  /\ projectionChanges(World, P) = calculatePatch(snapshot, projectionEntries(World, P))

C23_ChangesFromSnapshot ==
  \A i \in 1..Len(proj) :
    /\ ChangesFromSnapshot(proj[i], Snapshot(proj[i]))
    /\ \A value \in FileLists :
         ChangesFromSnapshot(setFiles(proj[i], value), Snapshot(proj[i]))


(***************************************************************************)
(* C24.  A Projection without include, exclude or files and with the empty *)
(* cwd has the entries of its parent, the same paths in the same order,    *)
(* whether the parent is a WritableTree, one that holds links to           *)
(* directories of another tree, a Delegator or a SourceTree (read while    *)
(* its cache agrees with the disk).                                        *)
(***************************************************************************)
ProjectionOfTreeIsTree ==
  \A w \in Trees :
    \A parentEntries \in {treeEntries(World, w)} :
      \A projected \in {projectionEntries(World, Projection(w, <<>>))} :
        /\ PathsOf(projected) = PathsOf(parentEntries)
        /\ projected = parentEntries

ProjectionOfSourceIsSource ==
  CacheIsCurrent =>
    \A parent \in {sourceEntriesGetter(Source)} :
      /\ parent.error = "none"
      /\ \A projected \in {sourceProjectionEntries(parent.world)} :
           /\ projected.error = "none"
           /\ PathsOf(projected.returned) = PathsOf(parent.returned)

C24_UnfilteredProjectionIsParent ==
  /\ ProjectionOfTreeIsTree
  /\ ProjectionOfSourceIsSource

\* Tree 2 holds a link to a directory of tree 1 that holds a file.
LinkedDirectoryProjected ==
  /\ delegate[2] = 0
  /\ \E k \in DOMAIN entries[2] :
       /\ entries[2][k].symlink.kind = "dir"
       /\ projectionEntries(World, proj[entries[2][k].symlink.proj]) # <<>>
  /\ Len(projectionEntries(World, Projection(2, <<>>))) >= 2


(***************************************************************************)
(* C25.  In a Projection's entries, a directory that does not itself match *)
(* the filters appears if and only if at least one of its descendants is   *)
(* emitted, and every ancestor directory (below cwd) of every emitted      *)
(* entry appears exactly once.                                             *)
(***************************************************************************)
\* The path of an entry of the parent as the projection reports it.
BelowCwd(relativePath) == substring(relativePath, Len(ensureSeparator(filters.cwd)))

\* The directories strictly between the cwd and a path the projection reports.
RECURSIVE AncestorsOf(_)
AncestorsOf(relativePath) ==
  IF dirname(relativePath) = <<>> THEN {}
  ELSE {dirname(relativePath)} \cup AncestorsOf(dirname(relativePath))

TimesIn(array, relativePath) ==
  Cardinality({i \in 1..Len(array) : array[i].relativePath = relativePath})

Matches(entry) ==
  filterMatchesMatchers(entry.relativePath, filters.cwd, filters.hasInclude,
                        filters.include, filters.exclude)

\* The directories of the parent inside the cwd that the filters do not match.
UnmatchedDirectories ==
  {i \in 1..Len(parentTree) :
     /\ isDirectory(parentTree[i])
     /\ startsWith(parentTree[i].relativePath, ensureSeparator(filters.cwd))
     /\ ~Matches(parentTree[i])}

DirectoryStackEmits(out) ==
  /\ \A i \in UnmatchedDirectories :
       TimesIn(out, BelowCwd(parentTree[i].relativePath)) > 0
         <=> \E j \in 1..Len(out) :
               Beneath(out[j].relativePath, BelowCwd(parentTree[i].relativePath))
  /\ \A j \in 1..Len(out) : \A directory \in AncestorsOf(out[j].relativePath) :
       TimesIn(out, directory) = 1

C25_DirectoryStackEmitsAncestors ==
  \A out \in {filteredEntriesOf(parentTree, filters)} : DirectoryStackEmits(out)

\* An unmatched directory is reported for a matching file two levels below it,
\* and another unmatched directory with nothing matching in it is not.
C25_Witness ==
  /\ filters.hasInclude
  /\ \E i, k \in UnmatchedDirectories :
       \E out \in {filteredEntriesOf(parentTree, filters)} :
         /\ TimesIn(out, BelowCwd(parentTree[i].relativePath)) = 1
         /\ \E j \in 1..Len(out) :
              /\ ~isDirectory(out[j])
              /\ dirname(out[j].relativePath) # <<>>
              /\ BelowCwd(parentTree[i].relativePath) = dirname(dirname(out[j].relativePath))
         /\ TimesIn(out, BelowCwd(parentTree[k].relativePath)) = 0

(***************************************************************************)
(* C26.  A path is absent from a Projection's entries whenever the path    *)
(* itself or any of its ancestor directories matches an exclude matcher,   *)
(* even if the path matches an include matcher: exclude takes precedence   *)
(* over include and an excluded directory hides its whole subtree.         *)
(***************************************************************************)
Excluded(relativePath) ==
  relativePath \in filters.exclude \/ AncestorsOf(relativePath) \cap filters.exclude # {}

C26_ExcludeTakesPrecedence ==
  \A out \in {filteredEntriesOf(parentTree, filters)} :
    \A j \in 1..Len(out) : ~Excluded(out[j].relativePath)

\* A file that an include matcher matches is left out because an exclude
\* matcher matches the directory above its directory.
C26_Witness ==
  /\ filters.hasInclude
  /\ \E i \in 1..Len(parentTree) :
       /\ ~isDirectory(parentTree[i])
       /\ startsWith(parentTree[i].relativePath, ensureSeparator(filters.cwd))
       /\ BelowCwd(parentTree[i].relativePath) \in filters.include
       /\ BelowCwd(parentTree[i].relativePath) \notin filters.exclude
       /\ dirname(BelowCwd(parentTree[i].relativePath)) \notin filters.exclude
       /\ Excluded(BelowCwd(parentTree[i].relativePath))
       /\ \A out \in {filteredEntriesOf(parentTree, filters)} :
            TimesIn(out, BelowCwd(parentTree[i].relativePath)) = 0


(***************************************************************************)
(* C27.  Merging inputs a={bar/{baz}, qux} and b={c/{d}, qux} with         *)
(* overwrite=true yields the merged entries [bar, bar/baz, c, c/d, qux],   *)
(* with qux taken from b.  Here 'a' and 'a/b' stand for bar and bar/baz    *)
(* and 'd' for qux.                                                        *)
(***************************************************************************)
TreeA == <<Entry(<<"a">>, 1, 0, DIRECTORY_MODE, <<>>), Entry(<<"a", "/", "b">>, 1, 0, FILE_MODE, <<>>),
           Entry(<<"d">>, 1, 0, FILE_MODE, <<>>)>>
TreeB == <<Entry(<<"c">>, 1, 0, DIRECTORY_MODE, <<>>), Entry(<<"c", "/", "d">>, 1, 0, FILE_MODE, <<>>),
           Entry(<<"d">>, 1, 0, FILE_MODE, <<>>)>>

\* _mergeRelativePath({ overwrite: true }, '') was called on the merge of a and b.
MergedAB ==
  /\ inputTrees = <<TreeA, TreeB>>
  /\ mergeResult.op = "_mergeRelativePath"
  /\ overwrite = "true"

ReturnedPaths == [k \in 1..Len(mergeResult.returned) |-> mergeResult.returned[k].relativePath]

\* The claim as stated: every directory is expanded.
C27_MergedEntries ==
  MergedAB =>
    /\ mergeResult.error = "none"
    /\ ReturnedPaths = <<(<<"a">>), (<<"a", "/", "b">>), (<<"c">>), (<<"c", "/", "d">>), (<<"d">>)>>
    /\ mergeResult.returned[5].tree = 2

\* Amended: where directories can be linked the merge returns [bar, c, qux]
\* with bar and c marked linkDir, and [bar, bar/baz, c, c/d, qux] where they
\* cannot; qux is taken from b.
C27_MergedEntriesLinked ==
  MergedAB =>
    /\ mergeResult.error = "none"
    /\ ReturnedPaths = (IF canSymlink
                        THEN <<(<<"a">>), (<<"c">>), (<<"d">>)>>
                        ELSE <<(<<"a">>), (<<"a", "/", "b">>), (<<"c">>), (<<"c", "/", "d">>),
                               (<<"d">>)>>)
    /\ \A k \in 1..Len(mergeResult.returned) :
         LET entry == mergeResult.returned[k]
         IN /\ entry.linkDir = (canSymlink /\ isDirectory(entry))
            /\ entry.relativePath = <<"d">> => entry.tree = 2

C27_Witness == MergedAB /\ canSymlink /\ Len(mergeResult.returned) = 3


(***************************************************************************)
(* C28.  For a name present in several merge inputs: if it is a file in    *)
(* one input and a directory in another, the merge fails with the          *)
(* conflicting-file-type error whatever the overwrite option; if it is a   *)
(* file in more than one input and overwrite is false or null, the merge   *)
(* fails with the overwrite-refused error; a directory present in several  *)
(* inputs raises neither error.  Each case is taken where no other name    *)
(* is in one of the first two cases.                                       *)
(***************************************************************************)
\* The inputs that hold a path as a file, and as a directory.
FileIn(relativePath) ==
  {i \in 1..Len(inputTrees) :
     \E k \in 1..Len(inputTrees[i]) :
       inputTrees[i][k].relativePath = relativePath /\ ~isDirectory(inputTrees[i][k])}
DirectoryIn(relativePath) ==
  {i \in 1..Len(inputTrees) :
     \E k \in 1..Len(inputTrees[i]) :
       inputTrees[i][k].relativePath = relativePath /\ isDirectory(inputTrees[i][k])}

InputPaths ==
  UNION {{inputTrees[i][k].relativePath : k \in 1..Len(inputTrees[i])} : i \in 1..Len(inputTrees)}

ConflictingTypes(relativePath) == FileIn(relativePath) # {} /\ DirectoryIn(relativePath) # {}
FileInSeveral(relativePath) == Cardinality(FileIn(relativePath)) > 1
DirectoryInSeveral(relativePath) ==
  Cardinality(DirectoryIn(relativePath)) > 1 /\ FileIn(relativePath) = {}

\* The paths that are in one of the first two cases.
Guarded == {x \in InputPaths : ConflictingTypes(x) \/ (FileInSeveral(x) /\ overwrite # "true")}

C28_MergeGuards ==
  mergeResult.op = "_mergeRelativePath" =>
    \A x \in InputPaths :
      /\ (ConflictingTypes(x) /\ Guarded = {x}) =>
           mergeResult.error = "conflicting file types"
      /\ (FileInSeveral(x) /\ ~ConflictingTypes(x) /\ overwrite # "true" /\ Guarded = {x}) =>
           mergeResult.error = "overwrite refused"
      /\ (DirectoryInSeveral(x) /\ Guarded = {}) => mergeResult.error = "none"


(***************************************************************************)
(* C29.  When a file name is present in several merge inputs and overwrite *)
(* is allowed, the single merged entry for that name is the entry of the   *)
(* last input (highest index) that contains it, and the name appears       *)
(* exactly once in the merged result.                                      *)
(***************************************************************************)
Last(S) == CHOOSE i \in S : \A j \in S : j <= i

ReturnedAt(relativePath) ==
  {k \in 1..Len(mergeResult.returned) : mergeResult.returned[k].relativePath = relativePath}

\* _mergeRelativePath({ overwrite: true }, '') returned.
Overwritten ==
  /\ mergeResult.op = "_mergeRelativePath"
  /\ overwrite = "true"
  /\ mergeResult.error = "none"

C29_LastInputWins ==
  Overwritten =>
    \A x \in InputPaths :
      FileInSeveral(x) =>
        /\ Cardinality(ReturnedAt(x)) = 1
        /\ \A k \in ReturnedAt(x) :
             /\ mergeResult.returned[k].tree = Last(FileIn(x))
             /\ ~isDirectory(mergeResult.returned[k])

\* A file of a merged directory that the first two of three inputs hold is
\* taken from the second.
C29_Witness ==
  /\ Overwritten
  /\ Len(inputTrees) = 3
  /\ FileIn(<<"a", "/", "b">>) = {1, 2}
  /\ \E k \in ReturnedAt(<<"a", "/", "b">>) : mergeResult.returned[k].tree = 2


(***************************************************************************)
(* C30.  FSMergeTree.changes() diffs the newly merged tree against the     *)
(* merged tree of the previous changes() call (initially empty) with an    *)
(* equality that also compares linkDir: a second call with unchanged       *)
(* inputs returns an empty patch, and a directory that switches between    *)
(* being present in exactly one input (linked, not expanded) and in        *)
(* several inputs (merged recursively) is reported as a change on that     *)
(* directory together with its now-visible children.                       *)
(***************************************************************************)
\* The operations a patch holds for a path.
OperationsOn(changeList, relativePath) ==
  {changeList[k].op : k \in {n \in 1..Len(changeList) : changeList[n].path = relativePath}}

\* The directories whose linkDir differs between two merged trees.
Switched(before, after) ==
  {n \in 1..Len(after) :
     /\ isDirectory(after[n])
     /\ \E k \in 1..Len(before) :
          /\ before[k].relativePath = after[n].relativePath
          /\ isDirectory(before[k])
          /\ before[k].linkDir # after[n].linkDir}

\* What a changes() that returns says about the tree of the call before it.
ChangesFromPreviousMerge ==
  /\ mergeResult'.returned = mergeCalculatePatch(currentTree, currentTree', canSymlink)
  /\ currentTree' = currentTree => mergeResult'.returned = <<>>
  /\ \A n \in Switched(currentTree, currentTree') :
       /\ OperationsOn(mergeResult'.returned, currentTree'[n].relativePath) = {"change"}
       /\ ~currentTree'[n].linkDir =>
            \A k \in 1..Len(currentTree') :
              Beneath(currentTree'[k].relativePath, currentTree'[n].relativePath) =>
                OperationsOn(mergeResult'.returned, currentTree'[k].relativePath)
                  \in {{"create"}, {"mkdir"}}

C30_ChangesDiffsPreviousMerge ==
  [][((\E ow \in OverwriteOptions : Changes(ow)) /\ mergeResult'.error = "none")
       => ChangesFromPreviousMerge]_vars

\* changes() returned the change of the directory that a second input now
\* holds too, with the files of both inputs.
C30_Witness ==
  /\ mergeResult.op = "changes"
  /\ mergeResult.error = "none"
  /\ canSymlink
  /\ [k \in 1..Len(mergeResult.returned) |->
        <<mergeResult.returned[k].op, mergeResult.returned[k].path>>]
       = <<(<<"change", (<<"a">>)>>), (<<"create", (<<"a", "/", "b">>)>>),
           (<<"create", (<<"a", "/", "c">>)>>)>>
  /\ \A k \in 1..Len(currentTree) : ~currentTree[k].linkDir

\* changes() was called again on the same inputs and returned nothing.
C30_SecondCall ==
  /\ mergeResult.op = "changes"
  /\ mergeResult.error = "none"
  /\ mergeResult.returned = <<>>
  /\ currentTree # <<>>


(***************************************************************************)
(* C31.  Path normalization is idempotent - normalize(normalize(p)) equals *)
(* normalize(p) for every path p that normalizes successfully - and every  *)
(* path whose `..` segments climb above the root is rejected with the      *)
(* invalid-path error, on the first call and on every repeated (memoized)  *)
(* call.                                                                   *)
(***************************************************************************)
RECURSIVE Climbs(_, _)
\* Some `..` of the segments is met at depth 0: the path leaves the root.
Climbs(segments, depth) ==
  IF segments = <<>> THEN FALSE
  ELSE IF Head(segments) = <<".", ".">>
  THEN depth = 0 \/ Climbs(Tail(segments), depth - 1)
  ELSE IF Head(segments) = <<>> \/ Head(segments) = <<".">>
  THEN Climbs(Tail(segments), depth)
  ELSE Climbs(Tail(segments), depth + 1)

EscapesRoot(relativePath) == Climbs(split(relativePath), 0)

C31_NormalizeIdempotent ==
  normalized.called =>
    /\ EscapesRoot(normalized.path) => normalized.error = "Invalid path"
    /\ normalized.error = "none" =>
         \A again \in {normalizeRelativePath(normalizedPaths, normalized.returned)} :
           again.error = "none" /\ again.returned = normalized.returned


(***************************************************************************)
(* C32.                                                                    *)
(***************************************************************************)
\* The directories above a path, the root left out.
AncestorDirectories(relativePath) ==
  {SubSeq(relativePath, 1, i - 1) : i \in {j \in 1..Len(relativePath) : relativePath[j] = sep}}

\* How many entries of an array have a path.
Occurrences(array, relativePath) ==
  Cardinality({k \in 1..Len(array) : array[k].relativePath = relativePath})

\* What C32 says of the array sortAndExpand leaves for the entries made from
\* a list of paths.
SortedAndExpanded(list, array) ==
  /\ validateSortedUnique(array)
  /\ \A k \in 1..Len(list) : Occurrences(array, fromPath(list[k]).relativePath) >= 1
  /\ \A k \in 1..Len(list) : \A d \in AncestorDirectories(fromPath(list[k]).relativePath) :
       /\ Occurrences(array, d) = 1
       /\ \A j \in 1..Len(array) : array[j].relativePath = d => isDirectory(array[j])

\* C32: the array sortAndExpand makes of the entries of a files list is
\* strictly ascending by relativePath with no path twice, holds every input
\* entry and exactly one directory entry for every directory above an input
\* entry, also when a file name sorts between a directory and its children.
C32_SortAndExpandSortedComplete ==
  \A i \in 1..Len(proj) :
    proj[i].hasFiles => SortedAndExpanded(proj[i].files, proj[i].entriesFromFiles)


(***************************************************************************)
(* C33.                                                                    *)
(***************************************************************************)
\* The last call was a write operation that threw.
WriteThrew(call) == call.op \in WriteOperations /\ call.result \notin {"ok", "noop"}

\* C33: a write operation that throws leaves the tree as it was before the
\* call: the same entries, the same tracked changes, the same state, the same
\* mode (WritableTree or Delegator) and the same root directory on disk.
C33_ThrowingWriteChangesNothing ==
  [][WriteThrew(lastCall') =>
       /\ entries' = entries
       /\ tracker' = tracker
       /\ state' = state
       /\ delegate' = delegate
       /\ rootOnDisk' = rootOnDisk]_vars

\* The same of all but the root directory on disk.
C33_ThrowingWriteKeepsTree ==
  [][WriteThrew(lastCall') =>
       /\ entries' = entries
       /\ tracker' = tracker
       /\ state' = state
       /\ delegate' = delegate]_vars


(***************************************************************************)
(* C34.                                                                    *)
(***************************************************************************)
\* The entries of all the directory holds on disk, in ascending order.
DiskEntries(D) ==
  With(SelectSeq(SourcePaths, LAMBDA relativePath : KindOnDisk(D, relativePath) # "nothing"),
       LAMBDA names : [i \in 1..Len(names) |-> StatEntry(CHOOSE f \in D : f.path = names[i])])

\* The directory did not change on disk during the cycle before the last
\* reread, nor since.
DiskUnchanged == quietRereads = 2

\* C34: where the directory did not change on disk during the previous cycle
\* and since the last reread, changes() of the SourceTree is empty, whichever
\* directories were scanned before that reread.  (A changes() that throws is
\* left out.)
C34_NoChangesWhileDiskUnchanged ==
  DiskUnchanged =>
    \A r \in {sourceChanges(Source)} : r.error = "none" => r.returned = <<>>

\* The same where the snapshot holds the whole tree, called before anything
\* else reads the tree.
C34_NoChangesAfterFullScan ==
  (DiskUnchanged /\ scannedDirectories = {} /\ sourcePrevious = DiskEntries(sourceDisk)) =>
    \A r \in {sourceChanges(Source)} : r.error = "none" /\ r.returned = <<>>

\* changes() was called where the whole tree was scanned before the reread.
C34_FullScanReached ==
  /\ DiskUnchanged /\ scannedDirectories = {}
  /\ sourcePrevious = DiskEntries(sourceDisk)
  /\ Len(sourcePrevious) = 3

(***************************************************************************)
(* C37.                                                                    *)
(***************************************************************************)
\* C37: in a reread of the SourceTree every child Projection takes its
\* snapshot after the SourceTree stashed its own entries and before the
\* SourceTree's entries and scanned set are cleared: the SourceTree's stash
\* is its entries of before the call, and each child's snapshot is the
\* entries the child exposed before the call.
C37_ChildrenSnapshotBeforeInvalidation ==
  \A done \in {sourceRereadSync(Source)} :
    done.error = "none" =>
      /\ done.world.previous = sourceEntries
      /\ done.world.entries = <<>>
      /\ \A exposed \in {sourceProjectionEntries(Source)} :
           \A i \in 1..Len(childPrevious) :
             done.world.children[i] = Copied(exposed.returned)

\* A reread was made of a SourceTree with a child, and the child's snapshot
\* is not what the directory held on disk at the reread (and holds still).
C37_Witness ==
  /\ Len(childPrevious) >= 1
  /\ childPrevious[1].has
  /\ quietRereads = 1
  /\ sourceEntries = <<>> /\ scannedDirectories = {}
  /\ \A fresh \in {sourceProjectionEntries(Source)} :
       fresh.error = "none" /\ fresh.returned # childPrevious[1].entries


(***************************************************************************)
(* C35.                                                                    *)
(***************************************************************************)
\* How often each change is in a list of changes.
TimesEach(list) ==
  [c \in {list[i] : i \in 1..Len(list)} |-> Cardinality({i \in 1..Len(list) : list[i] = c})]

\* What changes() of tree w reports for a link at a path: the changes at and
\* beneath the path, but for the unlink of a file the link took the place of.
ReportedAt(X, w, relativePath) ==
  SelectSeq(changes(X, w),
            LAMBDA c : \/ (c.path = relativePath /\ c.op # "unlink")
                       \/ Beneath(c.path, relativePath))

\* A change of a linked tree, prefixed with the path of the link.
Prefixed(relativePath, c) ==
  Change(c.op, clone(c.entry, joinPaths(relativePath, c.path)))

\* The link is one the tree had when start() was last called.
ExistedAtStart(w, link) ==
  \E j \in 1..Len(startEntries[w]) : startEntries[w][j] = link

\* What a link made since start() is to contribute: a mkdir for the link and
\* a mkdir or create for every entry the linked tree has now.
NewLinkChanges(X, link) ==
  With(projectionEntries(X, X.proj[link.symlink.proj]), LAMBDA linked :
    <<Change("mkdir", link)>>
    \o [i \in 1..Len(linked) |->
          addCommand(clone(linked[i], joinPaths(link.relativePath, linked[i].relativePath)))])

\* What a link of before start() is to contribute: the linked tree's changes().
OldLinkChanges(X, link) ==
  With(projectionChanges(X, X.proj[link.symlink.proj]), LAMBDA linked :
    [i \in 1..Len(linked) |-> Prefixed(link.relativePath, linked[i])])

\* C35: in changes() of a WritableTree, a directory link made since start()
\* contributes one mkdir for the link path and one mkdir or create for every
\* entry the linked tree has now; a directory link that was there at start()
\* and still is contributes the linked tree's own changes(); each prefixed
\* with the link path, and nothing of the linked tree is reported twice.
C35_LinkedChanges ==
  \A w \in Trees :
    delegate[w] = 0 =>
      \A k \in 1..Len(entries[w]) :
        (isSymbolicLink(entries[w][k]) /\ isDirectory(entries[w][k])) =>
          \A reported \in {ReportedAt(World, w, entries[w][k].relativePath)} :
            TimesEach(reported) =
              TimesEach(IF ExistedAtStart(w, entries[w][k])
                        THEN OldLinkChanges(World, entries[w][k])
                        ELSE NewLinkChanges(World, entries[w][k]))


\* The tree had a directory (a link to one, too) at the path when start() was
\* last called.
HeldAtStart(w, relativePath) ==
  \E j \in 1..Len(startEntries[w]) :
    /\ startEntries[w][j].relativePath = relativePath
    /\ isDirectory(startEntries[w][j])

\* C35 for the links made where the tree had no directory at start(), and
\* for those of before start().
C35_LinkedChangesAtNewPaths ==
  \A w \in Trees :
    delegate[w] = 0 =>
      \A k \in 1..Len(entries[w]) :
        (/\ isSymbolicLink(entries[w][k]) /\ isDirectory(entries[w][k])
         /\ (ExistedAtStart(w, entries[w][k]) \/ ~HeldAtStart(w, entries[w][k].relativePath))) =>
          \A reported \in {ReportedAt(World, w, entries[w][k].relativePath)} :
            TimesEach(reported) =
              TimesEach(IF ExistedAtStart(w, entries[w][k])
                        THEN OldLinkChanges(World, entries[w][k])
                        ELSE NewLinkChanges(World, entries[w][k]))


\* Tree 2 holds a directory link made since start() where it had none, to
\* a directory of two entries, and changes() was read.
C35_Witness ==
  /\ delegate[2] = 0
  /\ \E k \in 1..Len(entries[2]) :
       /\ isSymbolicLink(entries[2][k]) /\ isDirectory(entries[2][k])
       /\ ~HeldAtStart(2, entries[2][k].relativePath)
       /\ Len(projectionEntries(World, proj[entries[2][k].symlink.proj])) = 2
       /\ Len(ReportedAt(World, 2, entries[2][k].relativePath)) = 3


\* Tree 2 holds a directory link of before start() whose tree has changes.
C35_OldLinkReached ==
  /\ delegate[2] = 0
  /\ \E k \in 1..Len(entries[2]) :
       /\ isSymbolicLink(entries[2][k]) /\ isDirectory(entries[2][k])
       /\ ExistedAtStart(2, entries[2][k])
       /\ proj[entries[2][k].symlink.proj].hasPrevious
       /\ Len(ReportedAt(World, 2, entries[2][k].relativePath)) >= 1


(***************************************************************************)
(* C36.                                                                    *)
(***************************************************************************)
\* The parent directory of the path is not among the entries of tree w, or
\* is a link there.
ParentAbsentOrLinked(X, w, normalizedPath) ==
  /\ dirname(normalizedPath) # <<>>
  /\ \A r \in {searchByRelativePath(X.entries[w], dirname(normalizedPath), FALSE)} :
       r = -1 \/ isSymbolicLink(At(X.entries[w], r))

\* How each write operation but mkdirpSync ends at a path.
WriteResultsAt(X, w, normalizedPath) ==
  {mkdirSync(X, w, normalizedPath).result,
   rmdirSync(X, w, normalizedPath).result,
   unlinkSync(X, w, normalizedPath).result,
   removeSync(X, w, normalizedPath).result,
   emptySync(X, w, normalizedPath).result,
   writeFileSync(X, w, normalizedPath, <<"x">>).result,
   symlinkSync(X, w, normalizedPath).result,
   symlinkToFacadeSync(X, w, 1, <<>>, normalizedPath).result}

\* No entry of a tree lies beneath one of the tree's links.
NoEntryBeneathLink ==
  \A w \in Trees :
    \A i, j \in 1..Len(entries[w]) :
      isSymbolicLink(entries[w][i]) =>
        ~Beneath(entries[w][j].relativePath, entries[w][i].relativePath)

OnlyRemovals(list) == \A i \in 1..Len(list) : list[i].op \in {"unlink", "rmdir"}

\* The tree tracks the removal of a link to a directory.
TracksRemovedLink(w) ==
  \E i \in 1..Len(tracker[w].list) :
    /\ isSymbolicLink(tracker[w].list[i].entry)
    /\ isDirectory(tracker[w].list[i].entry)

\* C38: after undoRootSymlinkSync, changes() of the tree holds removals only:
\* what the delegate reports as added or updated is cancelled by the removal
\* of the same path.
C38_UndoLeavesRemovals ==
  \A w \in Trees :
    (delegate[w] # 0 /\ state[w] = "started") =>
      \A undone \in {undoRootSymlinkSync(World, w)} :
        /\ undone.result = "ok"
        /\ OnlyRemovals(changes(undone.world, w))

\* The same for a tree that tracks no removal of a link to a directory.
C38_UndoLeavesRemovalsButLinks ==
  \A w \in Trees :
    (delegate[w] # 0 /\ state[w] = "started" /\ ~TracksRemovedLink(w)) =>
      \A undone \in {undoRootSymlinkSync(World, w)} :
        /\ undone.result = "ok"
        /\ OnlyRemovals(changes(undone.world, w))
        /\ OnlyRemovals(undone.world.tracker[w].list)


\* A started Delegator that tracks a removal of its own, whose delegate
\* has taken a snapshot and reports an addition.
C38_AdditionsReached ==
  /\ delegate[2] # 0 /\ state[2] = "started"
  /\ tracker[2].list # <<>>
  /\ ~TracksRemovedLink(2)
  /\ \A reported \in {projectionChanges(World, proj[delegate[2]])} :
       /\ proj[delegate[2]].hasPrevious
       /\ \E i \in 1..Len(reported) : reported[i].op \in {"mkdir", "create"}


(***************************************************************************)
(* C39.                                                                    *)
(***************************************************************************)
\* How the write methods of WritableTree.prototype would end for tree w at a
\* path, and how calling them on tree w ends.
PrototypeWrites(X, w, p) ==
  <<mkdirSync(X, w, p), mkdirpSync(X, w, p), rmdirSync(X, w, p), unlinkSync(X, w, p),
    removeSync(X, w, p), emptySync(X, w, p), writeFileSync(X, w, p, <<"x">>),
    symlinkSync(X, w, p), symlinkToFacadeSync(X, w, 1, <<>>, p)>>

CalledWrites(X, w, p) ==
  With(PrototypeWrites(X, w, p), LAMBDA ended :
    [i \in 1..Len(ended) |-> Writable(w, ended[i])])

\* The reads of a Delegator are its delegate's, and a Projection made of the
\* Delegator reads what the Delegator reads.
DelegatorReads(w) ==
  /\ treeEntries(World, w) = projectionEntries(World, proj[delegate[w]])
  /\ changes(World, w) = projectionChanges(World, proj[delegate[w]])
  /\ projectionEntries(World, Projection(w, <<>>)) = treeEntries(World, w)

\* start() and stop() of a Delegator are WritableTree's.
DelegatorStarts ==
  (lastCall.op \in {"start", "stop"} /\ delegate[lastCall.tree] # 0) =>
    /\ lastCall.result = "ok"
    /\ state[lastCall.tree] = (IF lastCall.op = "start" THEN "started" ELSE "stopped")
    /\ lastCall.op = "start" => tracker[lastCall.tree] = EmptyTracker

\* C39 as stated: the write operations of a tree in Delegator mode end as
\* those of a WritableTree, and the reads are the delegate's.
C39_DelegatorWritesAsWritableTree ==
  \A w \in Trees :
    delegate[w] # 0 =>
      /\ DelegatorReads(w)
      /\ \A p \in CallPaths : CalledWrites(World, w, p) = PrototypeWrites(World, w, p)

\* C39 with the writes as they are: a tree in Delegator mode starts and
\* stops as a WritableTree, reads what its delegate reads, a Projection made
\* of it reads the same, and each of the other write methods of
\* WritableTree.prototype is not there to call (a TypeError) and nothing
\* changes.
C39_DelegatorForwardsReads ==
  /\ DelegatorStarts
  /\ \A w \in Trees :
       delegate[w] # 0 =>
         /\ DelegatorReads(w)
         /\ \A p \in CallPaths :
              \A called \in {CalledWrites(World, w, p)} :
                \A i \in 1..Len(called) : called[i] = Throw("TypeError", World)
  /\ (lastCall.op \in WriteOperations \ {"symlinkToFacadeSync", "undoRootSymlinkSync"}
      /\ delegate[lastCall.tree] # 0) => lastCall.result = "TypeError"

\* mkdirSync was called on a started tree in Delegator mode whose delegate
\* holds an entry.
C39_Witness ==
  /\ lastCall.op = "mkdirSync"
  /\ delegate[lastCall.tree] # 0
  /\ state[lastCall.tree] = "started"
  /\ lastCall.result = "TypeError"
  /\ treeEntries(World, lastCall.tree) # <<>>


(***************************************************************************)
(* C40.                                                                    *)
(***************************************************************************)
\* The positions of the nodes of the list for an operation at a path.
NodesFor(K, operation, normalizedPath) ==
  {i \in 1..Len(K.list) : K.list[i].op = operation /\ K.list[i].path = normalizedPath}

\* The list holds at most one node per operation and path, _changeHash
\* references every node of the list under the node's own operation and path
\* and references nothing else, and one _untrack leaves no node for its
\* operation and path behind.
TrackerConsistent(K) ==
  /\ \A i \in 1..Len(K.list) :
       /\ NodesFor(K, K.list[i].op, K.list[i].path) = {i}
       /\ changeHashGet(K, K.list[i].op, K.list[i].path) = i
  /\ \A k \in DOMAIN K.hash :
       K.hash[k] # 0 => NodesFor(K, k[1], k[2]) = {K.hash[k]}
  /\ \A i \in 1..Len(K.list) :
       \A K1 \in {untrack(K, K.list[i].op, K.list[i].path)} :
         /\ Len(K1.list) = Len(K.list) - 1
         /\ NodesFor(K1, K.list[i].op, K.list[i].path) = {}

\* C40: the tracker of every started tree is consistent: at most one node
\* per operation and path, _changeHash defined exactly for the nodes of the
\* list and referencing them, and _untrack removing the only node there is.
C40_TrackerConsistent ==
  \A w \in Trees : state[w] = "started" => TrackerConsistent(tracker[w])

====
